---------------------------- MODULE Spec2Model ----------------------------
(***************************************************************************)
(* A model of pkg/kv/bulk/sst_batcher.go (SSTBatcher) together with the    *)
(* roachpb.Key / roachpb.Span helpers it relies on.  Keys are byte         *)
(* strings (sequences of small naturals) ordered lexicographically, as     *)
(* bytes.Compare orders them.                                              *)
(***************************************************************************)
EXTENDS Integers, Sequences, FiniteSets, TLC

\* ------------------------------------------------------------------ bounds
MaxByte == 1
MaxKeyLen == 2
MaxTS == 2
MaxVal == 2
MaxOps == 3
\* public calls in a session whose collaborators never fail
MaxReliableOps == 4
MaxResults == 2
MaxClock == 2
IngestFileSize == 2
MaxWall == 2
MaxLogical == 1
MaxPriority == 2
MaxEpoch == 2
MaxSequence == 1
MaxNode == 2
MaxTxnOps == 3

MaxValOps == 4

MaxEncoded == 200

\* --------------------------------------------------------- program constants
manualFlush == 0
sizeFlush == 1
rangeFlush == 2
MVCCVersionTimestampSize == 12

\* ------------------------------------------------------------ keys and spans
Bytes == 0..MaxByte

AllKeys == UNION {[1..n -> Bytes] : n \in 1..MaxKeyLen}

Timestamps == 1..MaxTS

Values == {<<v>> : v \in 1..MaxVal}

NoKey == <<>>

KeyMax == <<255, 255>>

Min2(x, y) == IF x <= y THEN x ELSE y

Max2(x, y) == IF x >= y THEN x ELSE y

\* bytes.Compare: -1, 0 or 1
KeyCompare(a, c) ==
  LET n == Min2(Len(a), Len(c))
      diff == {i \in 1..n : a[i] # c[i]}
  IN  IF diff = {}
        THEN (IF Len(a) < Len(c) THEN -1 ELSE IF Len(a) > Len(c) THEN 1 ELSE 0)
        ELSE LET i == CHOOSE i \in diff : \A j \in diff : i <= j
             IN  IF a[i] < c[i] THEN -1 ELSE 1

\* Key.Next: the key with a zero byte appended
KeyNext(k) == Append(k, 0)

MakeSpan(k, e) == [Key |-> k, EndKey |-> e]

ZeroSpan == MakeSpan(NoKey, NoKey)

ContainsKey(s, key) == KeyCompare(key, s.Key) >= 0 /\ KeyCompare(key, s.EndKey) < 0

Valid(s) ==
  IF Len(s.Key) = 0 /\ Len(s.EndKey) = 0 THEN FALSE
  ELSE IF Len(s.EndKey) = 0 THEN TRUE
  ELSE IF KeyCompare(s.Key, s.EndKey) >= 0 THEN FALSE
  ELSE TRUE

\* keys.EnsureSafeSplitKey: the last byte of a table key is the length of the
\* column-family suffix; the row prefix is the key without that suffix and
\* without the length byte.  A key shorter than its suffix is an error.
EnsureSafeSplitKey(k) ==
  IF Len(k) = 0 THEN [ok |-> FALSE, key |-> NoKey]
  ELSE LET colFamIDLen == k[Len(k)]
           idx == Len(k) - colFamIDLen - 1
       IN  IF idx < 0 THEN [ok |-> FALSE, key |-> NoKey]
           ELSE [ok |-> TRUE, key |-> SubSeq(k, 1, idx)]

\* The range cache: ranges are split at every one-byte key; Lookup returns the
\* descriptor of the range containing the key.
RangeBounds == {<<c>> : c \in 1..MaxByte}

RangeStart(k) ==
  LET below == {r \in RangeBounds : KeyCompare(r, k) <= 0}
  IN  IF below = {} THEN NoKey
      ELSE CHOOSE r \in below : \A q \in below : KeyCompare(q, r) <= 0

RangeEnd(k) ==
  LET above == {r \in RangeBounds : KeyCompare(r, k) > 0}
  IN  IF above = {} THEN KeyMax
      ELSE CHOOSE r \in above : \A q \in above : KeyCompare(r, q) <= 0

Lookup(k) == MakeSpan(RangeStart(k), RangeEnd(k))


\* ------------------------------------------------------------- batcher state
VARIABLES
  b,            \* the SSTBatcher's fields
  clock,        \* db.Clock(): the current time
  limiterHeld,  \* slots of b.limiter held by this batcher
  sent,         \* every AddSSTable request issued, in order, with its outcome
  flushed,      \* every summary the onFlush callback was invoked with, in order
  added,        \* every entry written to a file under construction, in order
  lastOp,       \* the last public call: its arguments, result and collaborator calls
  ops,          \* number of public calls made so far
  waited        \* number of requests issued when Flush last returned nil

\* ---------------------------------------------------------- transaction state
VARIABLES
  txn,          \* the Transaction the methods are called on
  lastTxnOp,    \* the last method called on it, and its arguments
  txnOps        \* number of method calls made so far

\* ---------------------------------------------------------------- Lease state
VARIABLES
  leaseCall     \* one call of Lease.Equivalent: its arguments and its result

\* ----------------------------------------------------------------- Span state
VARIABLES
  spanCall      \* one call of a Span method: its arguments and its result

\* ---------------------------------------------------------------- Value state
VARIABLES
  roachValue,   \* the Value the methods are called on
  lastValOp,    \* the last method called on it, its arguments and its result
  valOps        \* number of method calls made so far

batcherVars == <<b, clock, limiterHeld, sent, flushed, added, lastOp, ops, waited>>

txnVars == <<txn, lastTxnOp, txnOps>>

valueVars == <<roachValue, lastValOp, valOps>>

dataVars == <<leaseCall, spanCall, roachValue, lastValOp, valOps>>

vars == <<b, clock, limiterHeld, sent, flushed, added, lastOp, ops, waited,
          txn, lastTxnOp, txnOps, leaseCall, spanCall, roachValue, lastValOp, valOps>>

ZeroSummary == [DataSize |-> 0, SSTDataSize |-> 0, Rows |-> 0]

ZeroStats ==
  [Batches |-> 0, BatchesDueToSize |-> 0, BatchesDueToRange |-> 0,
   Splits |-> 0, Scatters |-> 0, LogicalDataSize |-> 0]

ZeroMS ==
  [LiveBytes |-> 0, LiveCount |-> 0, KeyBytes |-> 0, ValBytes |-> 0,
   KeyCount |-> 0, ValCount |-> 0, LastUpdateNanos |-> 0]

\* BulkOpSummary.Add
AddSummary(s, t) ==
  [DataSize |-> s.DataSize + t.DataSize,
   SSTDataSize |-> s.SSTDataSize + t.SSTDataSize,
   Rows |-> s.Rows + t.Rows]

\* IngestionPerformanceStats.Combine
CombineStats(s, t) ==
  [Batches |-> s.Batches + t.Batches,
   BatchesDueToSize |-> s.BatchesDueToSize + t.BatchesDueToSize,
   BatchesDueToRange |-> s.BatchesDueToRange + t.BatchesDueToRange,
   Splits |-> s.Splits + t.Splits,
   Scatters |-> s.Scatters + t.Scatters,
   LogicalDataSize |-> s.LogicalDataSize + t.LogicalDataSize]

\* SSTWriter.PutRawMVCC accounts len(key)+len(value) per entry in DataSize
EntrySize(key, value) == Len(key) + Len(value)

RECURSIVE FileDataSize(_)
FileDataSize(file) ==
  IF file = <<>> THEN 0
  ELSE EntrySize(file[1].key, file[1].value) + FileDataSize(Tail(file))

\* len(sstFile.Data()): the payload plus one framing byte per entry
DataLen(file) == FileDataSize(file) + Len(file)

\* With(v, Op) is Op(v) with v evaluated once
With(v, Op(_)) == CHOOSE r \in {Op(x) : x \in {v}} : TRUE

\* one collaborator call of an operation's trace
Call(name, ok, key) == [call |-> name, ok |-> ok, key |-> key]

\* what an operation hands back: the batcher, the error ("" is nil), the
\* collaborator calls made, the AddSSTable requests issued, the summaries
\* given to onFlush and the limiter slots still held
Res(bb, err, calls, reqs, cbs) ==
  [b |-> bb, err |-> err, calls |-> calls, sent |-> reqs, flushed |-> cbs,
   held |-> 0]

\* storage.RowCounter.Count: a row is counted when the row prefix changes
Count(rc, key) ==
  LET row == EnsureSafeSplitKey(key)
  IN  IF ~row.ok \/ Len(key) = Len(row.key) THEN rc
      ELSE IF row.key = rc.prev THEN rc
      ELSE [prev |-> row.key,
            BulkOpSummary |-> [rc.BulkOpSummary EXCEPT !.Rows = @ + 1]]

updateMVCCStats(ms, key, value) ==
  LET metaKeySize == Len(key) + 1
      totalBytes == Len(value) + MVCCVersionTimestampSize
  IN  [ms EXCEPT !.LiveBytes = @ + metaKeySize + totalBytes,
                 !.LiveCount = @ + 1,
                 !.KeyBytes = @ + metaKeySize + MVCCVersionTimestampSize,
                 !.ValBytes = @ + Len(value),
                 !.KeyCount = @ + 1,
                 !.ValCount = @ + 1]

\* Reset that keeps the buffered file and its writer
ResetKeepFile(bb) ==
  [bb EXCEPT !.batchStartKey = NoKey,
             !.batchEndKey = NoKey,
             !.batchEndValue = <<>>,
             !.batchEndTimestamp = 0,
             !.flushKey = NoKey,
             !.flushKeyChecked = FALSE,
             !.ms = ZeroMS,
             !.batchTS = IF bb.writeAtBatchTS THEN 0 ELSE @,
             !.batchRowCounter.BulkOpSummary = ZeroSummary]

\* Reset that keeps the start key of the batch
ResetKeepStartKey(bb) ==
  [bb EXCEPT !.sstWriter = [DataSize |-> 0, open |-> TRUE],
             !.sstFile = <<>>,
             !.batchEndKey = NoKey,
             !.batchEndValue = <<>>,
             !.batchEndTimestamp = 0,
             !.flushKey = NoKey,
             !.flushKeyChecked = FALSE,
             !.ms = ZeroMS,
             !.batchTS = IF bb.writeAtBatchTS THEN 0 ELSE @,
             !.batchRowCounter.BulkOpSummary = ZeroSummary]

\* Reset that also forgets the range last ingested into
ResetClearLastRange(bb) ==
  [bb EXCEPT !.sstWriter = [DataSize |-> 0, open |-> TRUE],
             !.sstFile = <<>>,
             !.batchStartKey = NoKey,
             !.batchEndKey = NoKey,
             !.batchEndValue = <<>>,
             !.batchEndTimestamp = 0,
             !.flushKey = NoKey,
             !.flushKeyChecked = FALSE,
             !.lastRange = [span |-> ZeroSpan, remaining |-> 0, nextExistingKey |-> NoKey],
             !.ms = ZeroMS,
             !.batchTS = IF bb.writeAtBatchTS THEN 0 ELSE @,
             !.batchRowCounter.BulkOpSummary = ZeroSummary]

\* Reset that keeps the flush boundary it looked up
ResetKeepFlushKey(bb) ==
  [bb EXCEPT !.sstWriter = [DataSize |-> 0, open |-> TRUE],
             !.sstFile = <<>>,
             !.batchStartKey = NoKey,
             !.batchEndKey = NoKey,
             !.batchEndValue = <<>>,
             !.batchEndTimestamp = 0,
             !.ms = ZeroMS,
             !.batchTS = IF bb.writeAtBatchTS THEN 0 ELSE @,
             !.batchRowCounter.BulkOpSummary = ZeroSummary]

\* SSTBatcher.Reset.  asyncAddSSTs is always empty (flushAsync is false), so
\* the Wait never yields an error.
Reset(bb) ==
  [bb EXCEPT !.sstWriter = [DataSize |-> 0, open |-> TRUE],
             !.sstFile = <<>>,
             !.batchStartKey = NoKey,
             !.batchEndKey = NoKey,
             !.batchEndValue = <<>>,
             !.batchEndTimestamp = 0,
             !.flushKey = NoKey,
             !.flushKeyChecked = FALSE,
             !.ms = ZeroMS,
             !.batchTS = IF bb.writeAtBatchTS THEN 0 ELSE @,
             !.batchRowCounter.BulkOpSummary = ZeroSummary]

\* ------------------------------------------------------------------ doFlush
\* the adaptive split given up when the split above the file fails
SplitStepsStopAfterFailedAbove(bb, e, start, end, size) ==
  LET doSplit == ContainsKey(bb.lastRange.span, start) /\ size >= bb.lastRange.remaining
      nextKey == bb.lastRange.nextExistingKey
      splitAbove == EnsureSafeSplitKey(nextKey)
      aboveCalled == doSplit /\ Len(nextKey) > 0 /\ KeyCompare(end, nextKey) < 0
                       /\ splitAbove.ok
      aboveOK == aboveCalled /\ e.splitAboveOK
      splitAt == EnsureSafeSplitKey(start)
      atCalled == doSplit /\ splitAt.ok /\ (aboveCalled => aboveOK)
      atOK == atCalled /\ e.splitOK
      scatterCalled == atOK /\ ~bb.disableScatters
      scatterOK == scatterCalled /\ e.scatterOK
  IN  [calls |->
         (IF aboveCalled THEN <<Call("AdminSplit", aboveOK, splitAbove.key)>> ELSE <<>>)
         \o (IF atCalled THEN <<Call("AdminSplit", atOK, splitAt.key)>> ELSE <<>>)
         \o (IF scatterCalled THEN <<Call("AdminScatter", scatterOK, splitAt.key)>> ELSE <<>>),
       Splits |-> (IF aboveOK THEN 1 ELSE 0) + (IF atOK THEN 1 ELSE 0),
       Scatters |-> IF scatterOK THEN 1 ELSE 0,
       aboveCalled |-> aboveCalled, atCalled |-> atCalled]

\* the adaptive split decided by the file's start key alone, whatever its size
SplitStepsAnySize(bb, e, start, end, size) ==
  LET doSplit == ContainsKey(bb.lastRange.span, start)
      nextKey == bb.lastRange.nextExistingKey
      splitAbove == EnsureSafeSplitKey(nextKey)
      aboveCalled == doSplit /\ Len(nextKey) > 0 /\ KeyCompare(end, nextKey) < 0
                       /\ splitAbove.ok
      aboveOK == aboveCalled /\ e.splitAboveOK
      splitAt == EnsureSafeSplitKey(start)
      atCalled == doSplit /\ splitAt.ok
      atOK == atCalled /\ e.splitOK
      scatterCalled == atOK /\ ~bb.disableScatters
      scatterOK == scatterCalled /\ e.scatterOK
  IN  [calls |->
         (IF aboveCalled THEN <<Call("AdminSplit", aboveOK, splitAbove.key)>> ELSE <<>>)
         \o (IF atCalled THEN <<Call("AdminSplit", atOK, splitAt.key)>> ELSE <<>>)
         \o (IF scatterCalled THEN <<Call("AdminScatter", scatterOK, splitAt.key)>> ELSE <<>>),
       Splits |-> (IF aboveOK THEN 1 ELSE 0) + (IF atOK THEN 1 ELSE 0),
       Scatters |-> IF scatterOK THEN 1 ELSE 0,
       aboveCalled |-> aboveCalled, atCalled |-> atCalled]

\* The adaptive split of doFlush: split above the file, split at its start,
\* scatter.  Every failure is only logged.  e holds the collaborators' answers.
SplitSteps(bb, e, start, end, size) ==
  LET doSplit == ContainsKey(bb.lastRange.span, start) /\ size >= bb.lastRange.remaining
      nextKey == bb.lastRange.nextExistingKey
      splitAbove == EnsureSafeSplitKey(nextKey)
      aboveCalled == doSplit /\ Len(nextKey) > 0 /\ KeyCompare(end, nextKey) < 0
                       /\ splitAbove.ok
      aboveOK == aboveCalled /\ e.splitAboveOK
      splitAt == EnsureSafeSplitKey(start)
      atCalled == doSplit /\ splitAt.ok
      atOK == atCalled /\ e.splitOK
      scatterCalled == atOK /\ ~bb.disableScatters
      scatterOK == scatterCalled /\ e.scatterOK
  IN  [calls |->
         (IF aboveCalled THEN <<Call("AdminSplit", aboveOK, splitAbove.key)>> ELSE <<>>)
         \o (IF atCalled THEN <<Call("AdminSplit", atOK, splitAt.key)>> ELSE <<>>)
         \o (IF scatterCalled THEN <<Call("AdminScatter", scatterOK, splitAt.key)>> ELSE <<>>),
       Splits |-> (IF aboveOK THEN 1 ELSE 0) + (IF atOK THEN 1 ELSE 0),
       Scatters |-> IF scatterOK THEN 1 ELSE 0,
       aboveCalled |-> aboveCalled, atCalled |-> atCalled]

\* the loop taking every result's capacity and next key, valid span or not
RECURSIVE processResultsUnchecked(_, _)
processResultsUnchecked(bb, results) ==
  IF results = <<>> THEN bb
  ELSE With(
         [bb EXCEPT
            !.maxWriteTS = IF bb.writeAtBatchTS THEN Max2(@, results[1].timestamp) ELSE @,
            !.lastRange.span = results[1].rangeSpan,
            !.lastRange.remaining = results[1].availableBytes,
            !.lastRange.nextExistingKey = results[1].followingLikelyNonEmptySpanStart],
         LAMBDA b1 : processResultsUnchecked(b1, Tail(results)))

\* The loop over the per-range results of a successful AddSSTable.
RECURSIVE processResults(_, _)
processResults(bb, results) ==
  IF results = <<>> THEN bb
  ELSE With(
         [bb EXCEPT
            !.maxWriteTS = IF bb.writeAtBatchTS THEN Max2(@, results[1].timestamp) ELSE @,
            !.lastRange.span = results[1].rangeSpan,
            !.lastRange.remaining =
                IF Valid(results[1].rangeSpan) THEN results[1].availableBytes ELSE @,
            !.lastRange.nextExistingKey =
                IF Valid(results[1].rangeSpan)
                  THEN results[1].followingLikelyNonEmptySpanStart ELSE @],
         LAMBDA b1 : processResults(b1, Tail(results)))

\* the callback invoked a second time for the same file
InvokeOnFlushTwice(bb, summary) == IF bb.onFlush THEN <<summary, summary>> ELSE <<>>

\* the onFlush callback is invoked only when one is registered
InvokeOnFlush(bb, summary) == IF bb.onFlush THEN <<summary>> ELSE <<>>

\* the slot released only on the success path
ReleaseOnSuccess(held, addOK) == IF addOK THEN held - 1 ELSE held

\* defer res.Release(): the slot goes back however AddSSTable ended
Release(held, addOK) == held - 1

\* the totals overwritten by the batch's statistics
mergeSummaryOverwrite(bb, summary, statsCopy) ==
  [bb EXCEPT !.totalBulkOpSummary = summary, !.totalStats = statsCopy]

\* the statistics of a finished batch go into the totals
mergeSummary(bb, summary, statsCopy) ==
  [bb EXCEPT !.totalBulkOpSummary = AddSummary(@, summary),
             !.totalStats = CombineStats(@, statsCopy)]

\* fn of doFlush: the AddSSTable request under the limiter slot, and the
\* processing of its results.  held is the number of slots held on entry.
fn(bb, e, req, size, currentBatchSummary, currentBatchStatsCopy, calls, held) ==
  LET ingestCalls == calls \o <<Call("AddSSTable", e.addOK, req.start)>>
      after == Release(held, e.addOK)
      release == IF after < held THEN <<Call("Release", TRUE, NoKey)>> ELSE <<>>
      summary == [currentBatchSummary EXCEPT !.DataSize = @ + size,
                                             !.SSTDataSize = @ + DataLen(req.data)]
      statsCopy == [currentBatchStatsCopy EXCEPT !.LogicalDataSize = @ + size]
      cbs == InvokeOnFlush(bb, summary)
  IN  IF ~e.addOK
        THEN [Res(bb, "AddSSTable", ingestCalls \o release, <<req>>, <<>>)
                EXCEPT !.held = after]
        ELSE [Res(mergeSummary(processResults(bb, e.results), summary, statsCopy),
                  "",
                  ingestCalls \o [i \in 1..Len(cbs) |-> Call("onFlush", TRUE, NoKey)]
                    \o release,
                  <<[req EXCEPT !.ok = TRUE, !.summary = summary,
                                !.writeTimestamps =
                                   {e.results[i].timestamp : i \in 1..Len(e.results)},
                                !.results = e.results]>>,
                  cbs)
                EXCEPT !.held = after]

\* doFlush up to the split decision: the batch is counted, the file finished
countFlush(bb, reason) ==
  [bb EXCEPT !.sstWriter.open = FALSE,
             !.currentStats.BatchesDueToSize = IF reason = sizeFlush THEN @ + 1 ELSE @,
             !.currentStats.BatchesDueToRange = IF reason = rangeFlush THEN @ + 1 ELSE @]

\* the AddSSTable request doFlush builds.  For the record of requests it also
\* carries the flush reason, whether a callback was registered, and (filled in
\* by fn) whether the ingest succeeded, with what summary, the per-range
\* results it returned and their write timestamps.
MakeReq(bb, reason) ==
  [batchTS |-> bb.batchTS, start |-> bb.batchStartKey,
   end |-> KeyNext(bb.batchEndKey), data |-> bb.sstFile, stats |-> bb.ms,
   reason |-> reason, onFlush |-> bb.onFlush, ok |-> FALSE,
   summary |-> ZeroSummary, writeTimestamps |-> {}, results |-> <<>>]

\* the cancellation during the delay swallowed: doFlush returns nil
ctxErrNil(bb) == Res(bb, "", <<Call("Delay", FALSE, NoKey)>>, <<>>, <<>>)

\* the context is done during the flush delay: doFlush returns ctx.Err()
ctxErr(bb) == Res(bb, "Canceled", <<Call("Delay", FALSE, NoKey)>>, <<>>, <<>>)

\* doFlush returning the error of a failed split or scatter
doFlushAbortOnSplitError(bb, reason, e, clk) ==
  IF bb.sstWriter.DataSize = 0 THEN Res(bb, "", <<>>, <<>>, <<>>)
  ELSE With([bb EXCEPT !.currentStats.Batches = @ + 1], LAMBDA b1 :
    IF e.delayCancelled
      THEN ctxErr(b1)
    ELSE IF ~b1.sstWriter.open
      THEN Res(b1, "Finish", <<Call("Finish", FALSE, NoKey)>>, <<>>, <<>>)
    ELSE With(countFlush(b1, reason), LAMBDA b3 :
      With(SplitSteps(b3, e, b3.batchStartKey, KeyNext(b3.batchEndKey),
                      b3.sstWriter.DataSize), LAMBDA sp :
      With([b3 EXCEPT !.currentStats.Splits = @ + sp.Splits,
                      !.currentStats.Scatters = @ + sp.Scatters,
                      !.ms.LastUpdateNanos = IF b3.ms # ZeroMS THEN clk ELSE @],
           LAMBDA b5 :
        IF \E i \in DOMAIN sp.calls : ~sp.calls[i].ok
          THEN Res(b5, "AdminSplit", sp.calls, <<>>, <<>>)
        ELSE IF ~e.beginOK
          THEN Res(b5, "Begin", sp.calls \o <<Call("Begin", FALSE, NoKey)>>, <<>>, <<>>)
          ELSE fn([b5 EXCEPT !.currentStats = ZeroStats], e, MakeReq(b5, reason),
                  b5.sstWriter.DataSize, b5.batchRowCounter.BulkOpSummary,
                  b5.currentStats, sp.calls \o <<Call("Begin", TRUE, NoKey)>>, 1)))))

doFlush(bb, reason, e, clk) ==
  IF bb.sstWriter.DataSize = 0 THEN Res(bb, "", <<>>, <<>>, <<>>)
  ELSE With([bb EXCEPT !.currentStats.Batches = @ + 1], LAMBDA b1 :
    IF e.delayCancelled
      THEN ctxErr(b1)
    ELSE IF ~b1.sstWriter.open
      THEN Res(b1, "Finish", <<Call("Finish", FALSE, NoKey)>>, <<>>, <<>>)
    ELSE With(countFlush(b1, reason), LAMBDA b3 :
      With(SplitSteps(b3, e, b3.batchStartKey, KeyNext(b3.batchEndKey),
                      b3.sstWriter.DataSize), LAMBDA sp :
      With([b3 EXCEPT !.currentStats.Splits = @ + sp.Splits,
                      !.currentStats.Scatters = @ + sp.Scatters,
                      !.ms.LastUpdateNanos = IF b3.ms # ZeroMS THEN clk ELSE @],
           LAMBDA b5 :
        IF ~e.beginOK
          THEN Res(b5, "Begin", sp.calls \o <<Call("Begin", FALSE, NoKey)>>, <<>>, <<>>)
          ELSE fn([b5 EXCEPT !.currentStats = ZeroStats], e, MakeReq(b5, reason),
                  b5.sstWriter.DataSize, b5.batchRowCounter.BulkOpSummary,
                  b5.currentStats, sp.calls \o <<Call("Begin", TRUE, NoKey)>>, 1)))))

\* ------------------------------------------------------------ AddMVCCKey
\* the check without the skipDuplicates branch
dupCheckNoSkip(bb, key, ts, value) ==
  IF Len(bb.batchEndKey) > 0 /\ bb.batchEndKey = key
    THEN IF bb.ingestAll /\ ts = bb.batchEndTimestamp
           THEN (IF bb.batchEndValue = value THEN "absorb" ELSE "error")
         ELSE IF ~bb.ingestAll THEN "error"
         ELSE "accept"
    ELSE "accept"

\* the check with ingestAll not comparing the timestamps
dupCheckNoTimestamp(bb, key, ts, value) ==
  IF Len(bb.batchEndKey) > 0 /\ bb.batchEndKey = key
    THEN IF bb.ingestAll
           THEN (IF bb.batchEndValue = value THEN "absorb" ELSE "error")
         ELSE IF bb.skipDuplicates /\ bb.batchEndValue = value THEN "absorb"
         ELSE IF ~bb.ingestAll THEN "error"
         ELSE "accept"
    ELSE "accept"

\* the check with skipDuplicates absorbing only a repeat at the same timestamp
dupCheckSkipSameTimestamp(bb, key, ts, value) ==
  IF Len(bb.batchEndKey) > 0 /\ bb.batchEndKey = key
    THEN IF bb.ingestAll /\ ts = bb.batchEndTimestamp
           THEN (IF bb.batchEndValue = value THEN "absorb" ELSE "error")
         ELSE IF bb.skipDuplicates /\ bb.batchEndValue = value
                   /\ ts = bb.batchEndTimestamp THEN "absorb"
         ELSE IF ~bb.ingestAll THEN "error"
         ELSE "accept"
    ELSE "accept"

\* The equal-key check at the head of AddMVCCKey: "absorb" (return nil),
\* "error" (DuplicateKeyError) or "accept" (go on to add the key).
dupCheck(bb, key, ts, value) ==
  IF Len(bb.batchEndKey) > 0 /\ bb.batchEndKey = key
    THEN IF bb.ingestAll /\ ts = bb.batchEndTimestamp
           THEN (IF bb.batchEndValue = value THEN "absorb" ELSE "error")
         ELSE IF bb.skipDuplicates /\ bb.batchEndValue = value THEN "absorb"
         ELSE IF ~bb.ingestAll THEN "error"
         ELSE "accept"
    ELSE "accept"

\* The first step of flushIfNeeded: on the first key since Reset, remember the
\* end key of the range holding it.  A failed keys.Addr or rc.Lookup is logged.
lookupFlushKey(bb, nextKey, lookupOK) ==
  IF ~bb.flushKeyChecked /\ bb.rc
    THEN [bb EXCEPT !.flushKeyChecked = TRUE,
                    !.flushKey = IF lookupOK THEN Lookup(nextKey).EndKey ELSE @]
    ELSE bb

\* the boundary test with a key equal to the boundary left in the batch
shouldFlushPastBoundary(bb, nextKey) ==
  bb.flushKey # NoKey /\ KeyCompare(bb.flushKey, nextKey) < 0

shouldFlushDueToRange(bb, nextKey) ==
  bb.flushKey # NoKey /\ KeyCompare(bb.flushKey, nextKey) <= 0

\* the row check that never waits for the row boundary
sameRowNever(prevKey, nextKey) == FALSE

\* the row check of the size flush: both keys decode and share the row prefix
sameRow(prevKey, nextKey) ==
  LET prevRow == EnsureSafeSplitKey(prevKey)
      nextRow == EnsureSafeSplitKey(nextKey)
  IN  prevRow.ok /\ nextRow.ok /\ prevRow.key = nextRow.key

\* flushIfNeeded logging a doFlush error and carrying on
afterFlushSwallowError(r) == [r EXCEPT !.b = Reset(r.b), !.err = ""]

\* flushIfNeeded without the Reset after doFlush
afterFlushNoReset(r) == r

\* after doFlush inside flushIfNeeded: an error is returned, otherwise Reset
afterFlush(r) == IF r.err # "" THEN r ELSE [r EXCEPT !.b = Reset(r.b)]

flushIfNeeded(bb, nextKey, e, clk) ==
  With(lookupFlushKey(bb, nextKey, e.lookupOK), LAMBDA b1 :
  With(IF ~bb.flushKeyChecked /\ bb.rc
         THEN <<Call("Lookup", e.lookupOK, nextKey)>> ELSE <<>>, LAMBDA lookupCalls :
    IF shouldFlushDueToRange(b1, nextKey)
      THEN With(doFlush(b1, rangeFlush, e, clk), LAMBDA r :
             With(afterFlush(r), LAMBDA q : [q EXCEPT !.calls = lookupCalls \o @]))
    ELSE IF b1.sstWriter.DataSize >= IngestFileSize
      THEN IF sameRow(b1.batchEndKey, nextKey)
             THEN Res(b1, "", lookupCalls, <<>>, <<>>)
             ELSE With(doFlush(b1, sizeFlush, e, clk), LAMBDA r :
                    With(afterFlush(r), LAMBDA q : [q EXCEPT !.calls = lookupCalls \o @]))
    ELSE Res(b1, "", lookupCalls, <<>>, <<>>)))

\* SSTWriter.PutRawMVCC: a finished writer takes no more keys
PutRawMVCC(bb, key, ts, value) ==
  IF ~bb.sstWriter.open THEN [b |-> bb, err |-> "Put"]
  ELSE [b |-> [bb EXCEPT !.sstWriter.DataSize = @ + EntrySize(key, value),
                         !.sstFile = Append(@, [key |-> key, ts |-> ts, value |-> value])],
        err |-> ""]

\* AddMVCCKey between the flush check and the write of the key
acceptKey(bb, key, timestamp, value, clk) ==
  LET batchTS == IF bb.writeAtBatchTS /\ bb.batchTS = 0 THEN clk ELSE bb.batchTS
      ts == IF bb.writeAtBatchTS THEN batchTS ELSE timestamp
  IN  [bb EXCEPT !.batchTS = batchTS,
                 !.batchStartKey = IF Len(@) = 0 THEN key ELSE @,
                 !.batchEndTimestamp = ts,
                 !.batchEndKey = key,
                 !.batchEndValue = value,
                 !.batchRowCounter = Count(@, key),
                 !.ms = IF bb.disallowShadowingBelow
                          THEN updateMVCCStats(@, key, value) ELSE @]

AddMVCCKey(bb, key, timestamp, value, e, clk) ==
  With(dupCheck(bb, key, timestamp, value), LAMBDA dup :
    IF dup = "absorb" THEN Res(bb, "", <<>>, <<>>, <<>>)
    ELSE IF dup = "error" THEN Res(bb, "DuplicateKey", <<>>, <<>>, <<>>)
    ELSE With(flushIfNeeded(bb, key, e, clk), LAMBDA r :
      IF r.err # "" THEN r
      ELSE With(acceptKey(r.b, key, timestamp, value, clk), LAMBDA b4 :
             With(PutRawMVCC(b4, key, b4.batchEndTimestamp, value), LAMBDA put :
               [r EXCEPT !.b = put.b, !.err = put.err,
                         !.calls = IF put.err = "" THEN @
                                   ELSE @ \o <<Call("Put", FALSE, key)>>]))))

\* ------------------------------------------------------------------- Flush
\* the commit wait that forgets the write timestamp without sleeping
commitWaitNoSleep(r, e) == [r EXCEPT !.b.maxWriteTS = 0]

\* the commit wait of Flush: e.now is what Clock().Now() reads; SleepUntil
\* moves the clock to maxWriteTS
commitWait(r, e) ==
  IF r.b.maxWriteTS = 0 THEN r
  ELSE IF e.now < r.b.maxWriteTS
    THEN IF ~e.sleepOK
           THEN [r EXCEPT !.err = "SleepUntil",
                          !.calls = @ \o <<Call("SleepUntil", FALSE, NoKey)>>]
           ELSE [r EXCEPT !.b.maxWriteTS = 0,
                          !.clock = r.b.maxWriteTS,
                          !.calls = @ \o <<Call("SleepUntil", TRUE, NoKey)>>]
  ELSE [r EXCEPT !.b.maxWriteTS = 0, !.clock = e.now]

\* Flush: the manual flush, then the commit wait.  The result also carries
\* the clock.
Flush(bb, e, clk) ==
  With(doFlush(bb, manualFlush, e, clk), LAMBDA r :
    With([b |-> r.b, err |-> r.err, calls |-> r.calls, sent |-> r.sent,
          flushed |-> r.flushed, held |-> r.held, clock |-> clk], LAMBDA rc :
      IF rc.err # "" THEN rc ELSE commitWait(rc, e)))

\* GetSummary returns the cumulative summary
GetSummary(bb) == bb.totalBulkOpSummary

\* ------------------------------------------------------------- environment
\* The collaborators' answers to one operation.
DefaultEnv ==
  [lookupOK |-> TRUE, delayCancelled |-> FALSE, splitAboveOK |-> TRUE,
   splitOK |-> TRUE, scatterOK |-> TRUE, beginOK |-> TRUE, addOK |-> TRUE,
   results |-> <<>>, sleepOK |-> TRUE, now |-> 0]

BigAvail == 4 * IngestFileSize

\* the ranges a file [start, end) is ingested into, in key order
RECURSIVE RangeSeq(_, _)
RangeSeq(start, end) ==
  LET r == Lookup(start)
  IN  IF KeyCompare(r.EndKey, end) >= 0 THEN <<r>>
      ELSE <<r>> \o RangeSeq(r.EndKey, end)

\* what one range can report: full with existing data above, full with
\* nothing above, or with room left
Capacities == {<<0, <<MaxByte, 0>>>>, <<0, NoKey>>, <<BigAvail, NoKey>>}

\* the per-range results AddSSTable may return for [start, end): none, or one
\* for each of the first ranges of the file, the last one possibly without a
\* range span
ResultSeqs(bb, start, end, clk) ==
  LET ranges == RangeSeq(start, end)
      n == Min2(Len(ranges), MaxResults)
      tss == IF bb.writeAtBatchTS THEN {clk, MaxClock + 1} ELSE {0}
      result(i, ts, c, valid) ==
        [timestamp |-> ts,
         rangeSpan |-> IF valid \/ i < n THEN ranges[i] ELSE ZeroSpan,
         availableBytes |-> c[1],
         followingLikelyNonEmptySpanStart |-> c[2]]
  IN  {<<>>} \cup {[i \in 1..n |-> result(i, ts, c, valid)] :
                     ts \in tss, c \in Capacities, valid \in BOOLEAN}

\* the answers doFlush can consult in state bb
FlushEnvs(bb, clk) ==
  IF bb.sstWriter.DataSize = 0 THEN {DefaultEnv}
  ELSE {[DefaultEnv EXCEPT !.delayCancelled = TRUE]} \cup
    (IF ~bb.sstWriter.open THEN {DefaultEnv}
     ELSE LET start == bb.batchStartKey
              end == KeyNext(bb.batchEndKey)
              sp == SplitSteps(bb, DefaultEnv, start, end, bb.sstWriter.DataSize)
          IN  {[DefaultEnv EXCEPT !.splitAboveOK = a, !.splitOK = s, !.scatterOK = c,
                                  !.beginOK = g, !.addOK = o, !.results = rs] :
                 a \in (IF sp.aboveCalled THEN BOOLEAN ELSE {TRUE}),
                 s \in (IF sp.atCalled THEN BOOLEAN ELSE {TRUE}),
                 c \in (IF sp.atCalled /\ ~bb.disableScatters THEN BOOLEAN ELSE {TRUE}),
                 g \in BOOLEAN, o \in BOOLEAN,
                 rs \in ResultSeqs(bb, start, end, clk)})

CanonicalEnv(e) ==
  /\ (~e.splitOK => e.scatterOK)
  /\ (~e.beginOK => e.addOK)
  /\ (~(e.beginOK /\ e.addOK) => e.results = <<>>)

\* the answers AddMVCCKey can consult
AddEnvs(bb, key, ts, value, clk) ==
  IF dupCheck(bb, key, ts, value) # "accept" THEN {DefaultEnv}
  ELSE UNION {
    With(lookupFlushKey(bb, key, lk), LAMBDA b1 :
      {[e EXCEPT !.lookupOK = lk] :
         e \in IF \/ shouldFlushDueToRange(b1, key)
                  \/ /\ b1.sstWriter.DataSize >= IngestFileSize
                     /\ ~sameRow(b1.batchEndKey, key)
                 THEN {x \in FlushEnvs(b1, clk) : CanonicalEnv(x)}
                 ELSE {DefaultEnv}}) :
    lk \in (IF ~bb.flushKeyChecked /\ bb.rc THEN BOOLEAN ELSE {TRUE})}

\* the answers Flush can consult
ManualEnvs(bb, clk) ==
  {[e EXCEPT !.sleepOK = sl, !.now = now] :
     e \in {x \in FlushEnvs(bb, clk) : CanonicalEnv(x)},
     sl \in (IF bb.writeAtBatchTS THEN BOOLEAN ELSE {TRUE}),
     now \in (IF bb.writeAtBatchTS THEN clk..Max2(clk, MaxClock) ELSE {clk})}

\* ------------------------------------------------------------- Transaction
\* hlc.Timestamp is <<WallTime, Logical>>; the zero value is the empty timestamp.
EmptyTimestamp == <<0, 0>>

IsEmpty(t) == t = EmptyTimestamp

Less(t, s) == t[1] < s[1] \/ (t[1] = s[1] /\ t[2] < s[2])

\* Forward and Backward, as the value the receiver is left with
Forward(t, s) == IF Less(t, s) THEN s ELSE t

Backward(t, s) == IF Less(s, t) THEN s ELSE t

AddTimestamp(t, wallTime, logical) == <<t[1] + wallTime, t[2] + logical>>

\* the wall times and logical ticks timestamps are drawn from
TxnTimestamps == {<<w, l>> : w \in 1..MaxWall, l \in 0..MaxLogical}

\* enginepb.TxnPriority: the two sentinels
MinTxnPriority == 0

MaxTxnPriority == 2147483647

\* the priorities candidates are drawn from
TxnPriorities == (MinTxnPriority..MaxPriority) \cup {MaxTxnPriority - 1, MaxTxnPriority}

\* UserPriority is a float; the model counts it in thousandths
MinUserPriority == 1

NormalUserPriority == 1000

MaxUserPriority == 1000000

\* an explicit priority for each ordinary priority, the unspecified priority,
\* and the three named ones
UserPriorities ==
  {-1000 * p : p \in 1..MaxPriority} \cup
  {0, MinUserPriority, NormalUserPriority, MaxUserPriority}

\* MakePriority; val is the random value drawn and scaled for a weighted
\* priority
MakePriority(userPriority, val) ==
  IF userPriority < 0 THEN (-userPriority) \div 1000
  ELSE IF userPriority # 0 /\ userPriority >= MaxUserPriority THEN MaxTxnPriority
  ELSE IF userPriority # 0 /\ userPriority <= MinUserPriority THEN MinTxnPriority
  ELSE IF val < MinTxnPriority + 1 THEN MinTxnPriority + 1
  ELSE IF val > MaxTxnPriority - 1 THEN MaxTxnPriority - 1
  ELSE val

\* the values the random draw can take
RandomValues == {0, MaxPriority, MaxTxnPriority}

\* the priorities MakePriority can return
MadePriorities ==
  {MakePriority(userPriority, val) :
     userPriority \in UserPriorities, val \in RandomValues}

TransactionStatuses == {"PENDING", "PREPARED", "STAGING", "COMMITTED", "ABORTED"}

IsFinalized(status) == status = "COMMITTED" \/ status = "ABORTED"

\* the zero value of Transaction; ID 0 is the empty uuid
ZeroTransaction ==
  [ID |-> 0, Key |-> <<>>, IsoLevel |-> 0, Epoch |-> 0, Status |-> "PENDING",
   Priority |-> 0, WriteTimestamp |-> EmptyTimestamp,
   MinTimestamp |-> EmptyTimestamp, Sequence |-> 0,
   LastHeartbeat |-> EmptyTimestamp, ReadTimestamp |-> EmptyTimestamp,
   GlobalUncertaintyLimit |-> EmptyTimestamp, ReadTimestampFixed |-> FALSE,
   LockSpans |-> <<>>, InFlightWrites |-> <<>>, IgnoredSeqNums |-> <<>>,
   ObservedTimestamps |-> <<>>, AdmissionPriority |-> 0,
   OmitInRangefeeds |-> FALSE]

\* the record of the last method call, before any call
NoTxnOp ==
  [op |-> "Make", o |-> ZeroTransaction, priority |-> 0, upgradePriority |-> 0,
   timestamp |-> EmptyTimestamp, nodeID |-> 0]

\* MakeTransaction; u is the fresh uuid
MakeTransaction(u, baseKey, isoLevel, priority, now, maxOffsetNs, admissionPriority, omitInRangefeeds) ==
  [ZeroTransaction EXCEPT
     !.Key = baseKey, !.ID = u, !.IsoLevel = isoLevel, !.WriteTimestamp = now,
     !.MinTimestamp = now, !.Priority = priority, !.Sequence = 0,
     !.LastHeartbeat = now, !.ReadTimestamp = now,
     !.GlobalUncertaintyLimit = AddTimestamp(now, maxOffsetNs, 0),
     !.AdmissionPriority = admissionPriority,
     !.OmitInRangefeeds = omitInRangefeeds]

\* AssertInitialized does not crash
AssertInitialized(t) == t.ID # 0 /\ ~IsEmpty(t.WriteTimestamp)

\* the priority raised whatever the current one is
UpgradePriorityFromMin(t, minPriority) ==
  IF minPriority > t.Priority THEN [t EXCEPT !.Priority = minPriority] ELSE t

\* the priority replaced by the candidate
UpgradePrioritySet(t, minPriority) == [t EXCEPT !.Priority = minPriority]

UpgradePriority(t, minPriority) ==
  IF minPriority > t.Priority /\ t.Priority # MinTxnPriority
    THEN [t EXCEPT !.Priority = minPriority]
    ELSE t

BumpEpoch(t) == [t EXCEPT !.Epoch = @ + 1]

\* Restart that takes the supplied timestamp as the write timestamp
RestartAtTimestamp(t, priority, upgradePriority, timestamp) ==
  [UpgradePriority(UpgradePriority(BumpEpoch(t), priority), upgradePriority)
     EXCEPT !.WriteTimestamp = timestamp, !.ReadTimestamp = timestamp,
            !.Sequence = 0, !.ReadTimestampFixed = FALSE, !.LockSpans = <<>>,
            !.InFlightWrites = <<>>, !.IgnoredSeqNums = <<>>]

\* Restart; priority is MakePriority(userPriority)
Restart(t, priority, upgradePriority, timestamp) ==
  With(BumpEpoch(t), LAMBDA t1 :
  With([t1 EXCEPT !.WriteTimestamp =
                     IF Less(t1.WriteTimestamp, timestamp) THEN timestamp ELSE @],
       LAMBDA t2 :
  With([t2 EXCEPT !.ReadTimestamp = t2.WriteTimestamp], LAMBDA t3 :
  With(UpgradePriority(UpgradePriority(t3, priority), upgradePriority), LAMBDA t4 :
    [t4 EXCEPT !.Sequence = 0, !.ReadTimestampFixed = FALSE, !.LockSpans = <<>>,
               !.InFlightWrites = <<>>, !.IgnoredSeqNums = <<>>]))))

\* the read timestamp forwarded and the write timestamp left behind
BumpReadTimestampOnly(t, timestamp) == [t EXCEPT !.ReadTimestamp = Forward(@, timestamp)]

BumpReadTimestamp(t, timestamp) ==
  With([t EXCEPT !.ReadTimestamp = Forward(@, timestamp)], LAMBDA t1 :
    [t1 EXCEPT !.WriteTimestamp = Forward(@, t1.ReadTimestamp)])

\* observedTimestampSlice.index: the first position whose node is not below nodeID
index(s, nodeID) ==
  IF \E i \in 1..Len(s) : s[i].NodeID >= nodeID
    THEN CHOOSE i \in 1..Len(s) :
           /\ s[i].NodeID >= nodeID
           /\ \A j \in 1..(i - 1) : s[j].NodeID < nodeID
    ELSE Len(s) + 1

\* observedTimestampSlice.update
update(s, nodeID, timestamp) ==
  LET i == index(s, nodeID)
  IN  IF i <= Len(s) /\ s[i].NodeID = nodeID
        THEN IF Less(timestamp, s[i].Timestamp)
               THEN [s EXCEPT ![i].Timestamp = timestamp]
               ELSE s
        ELSE SubSeq(s, 1, i - 1) \o <<[NodeID |-> nodeID, Timestamp |-> timestamp]>>
               \o SubSeq(s, i, Len(s))

\* the single entry of a node overwritten by whatever timestamp is offered
UpdateObservedTimestampOverwrite(t, nodeID, timestamp) ==
  IF Len(t.ObservedTimestamps) = 0
    THEN [t EXCEPT !.ObservedTimestamps = <<[NodeID |-> nodeID, Timestamp |-> timestamp]>>]
  ELSE IF Len(t.ObservedTimestamps) = 1 /\ t.ObservedTimestamps[1].NodeID = nodeID
    THEN [t EXCEPT !.ObservedTimestamps =
                     <<[NodeID |-> nodeID, Timestamp |-> timestamp]>>]
  ELSE [t EXCEPT !.ObservedTimestamps = update(@, nodeID, timestamp)]

UpdateObservedTimestamp(t, nodeID, timestamp) ==
  IF Len(t.ObservedTimestamps) = 0
    THEN [t EXCEPT !.ObservedTimestamps = <<[NodeID |-> nodeID, Timestamp |-> timestamp]>>]
  ELSE IF Len(t.ObservedTimestamps) = 1 /\ t.ObservedTimestamps[1].NodeID = nodeID
    THEN IF Less(timestamp, t.ObservedTimestamps[1].Timestamp)
           THEN [t EXCEPT !.ObservedTimestamps =
                            <<[NodeID |-> nodeID, Timestamp |-> timestamp]>>]
           ELSE t
  ELSE [t EXCEPT !.ObservedTimestamps = update(@, nodeID, timestamp)]

\* the loop of Update over o's observed timestamps
RECURSIVE absorbObservedTimestamps(_, _)
absorbObservedTimestamps(t, obs) ==
  IF obs = <<>> THEN t
  ELSE absorbObservedTimestamps(
         UpdateObservedTimestamp(t, obs[1].NodeID, obs[1].Timestamp), Tail(obs))

\* the status of a later epoch adopted whatever the receiver's status is
updateStatusAdopt(t, o) ==
  IF t.Epoch < o.Epoch THEN o.Status
  ELSE IF t.Epoch = o.Epoch
    THEN CASE t.Status = "PENDING" -> o.Status
           [] t.Status \in {"PREPARED", "STAGING"} ->
                IF o.Status # "PENDING" THEN o.Status ELSE t.Status
           [] OTHER -> t.Status
  ELSE IF o.Status = "ABORTED" THEN "ABORTED" ELSE t.Status

\* the status of Update's receiver after the comparison of the epochs
updateStatus(t, o) ==
  IF t.Epoch < o.Epoch
    THEN IF ~IsFinalized(t.Status) THEN o.Status ELSE t.Status
  ELSE IF t.Epoch = o.Epoch
    THEN CASE t.Status = "PENDING" -> o.Status
           [] t.Status \in {"PREPARED", "STAGING"} ->
                IF o.Status # "PENDING" THEN o.Status ELSE t.Status
           [] OTHER -> t.Status
  ELSE IF o.Status = "ABORTED" THEN "ABORTED" ELSE t.Status

\* the receiver's epoch-scoped state kept against a later epoch
updateEpochScopedKeep(t, o) ==
  IF t.Epoch = o.Epoch
    THEN [t EXCEPT
            !.ReadTimestampFixed =
               IF t.ReadTimestamp = o.ReadTimestamp THEN @ \/ o.ReadTimestampFixed
               ELSE IF Less(t.ReadTimestamp, o.ReadTimestamp) THEN o.ReadTimestampFixed
               ELSE @,
            !.Sequence = IF @ < o.Sequence THEN o.Sequence ELSE @,
            !.LockSpans = IF Len(o.LockSpans) > 0 THEN o.LockSpans ELSE @,
            !.InFlightWrites = IF Len(o.InFlightWrites) > 0 THEN o.InFlightWrites ELSE @,
            !.IgnoredSeqNums = IF Len(o.IgnoredSeqNums) > 0 THEN o.IgnoredSeqNums ELSE @]
  ELSE t

\* the epoch-scoped state forwarded from an earlier epoch as from the same
updateEpochScopedForwardLower(t, o) ==
  IF t.Epoch < o.Epoch
    THEN [t EXCEPT !.Epoch = o.Epoch, !.ReadTimestampFixed = o.ReadTimestampFixed,
                   !.Sequence = o.Sequence, !.LockSpans = o.LockSpans,
                   !.InFlightWrites = o.InFlightWrites,
                   !.IgnoredSeqNums = o.IgnoredSeqNums]
  ELSE [t EXCEPT
          !.ReadTimestampFixed =
             IF t.ReadTimestamp = o.ReadTimestamp THEN @ \/ o.ReadTimestampFixed
             ELSE IF Less(t.ReadTimestamp, o.ReadTimestamp) THEN o.ReadTimestampFixed
             ELSE @,
          !.Sequence = IF @ < o.Sequence THEN o.Sequence ELSE @,
          !.LockSpans = IF Len(o.LockSpans) > 0 THEN o.LockSpans ELSE @,
          !.InFlightWrites = IF Len(o.InFlightWrites) > 0 THEN o.InFlightWrites ELSE @,
          !.IgnoredSeqNums = IF Len(o.IgnoredSeqNums) > 0 THEN o.IgnoredSeqNums ELSE @]

\* the lists of the same epoch replaced by o's lists, empty or not
updateEpochScopedReplaceLists(t, o) ==
  IF t.Epoch < o.Epoch
    THEN [t EXCEPT !.Epoch = o.Epoch, !.ReadTimestampFixed = o.ReadTimestampFixed,
                   !.Sequence = o.Sequence, !.LockSpans = o.LockSpans,
                   !.InFlightWrites = o.InFlightWrites,
                   !.IgnoredSeqNums = o.IgnoredSeqNums]
  ELSE IF t.Epoch = o.Epoch
    THEN [t EXCEPT
            !.ReadTimestampFixed =
               IF t.ReadTimestamp = o.ReadTimestamp THEN @ \/ o.ReadTimestampFixed
               ELSE IF Less(t.ReadTimestamp, o.ReadTimestamp) THEN o.ReadTimestampFixed
               ELSE @,
            !.Sequence = IF @ < o.Sequence THEN o.Sequence ELSE @,
            !.LockSpans = o.LockSpans,
            !.InFlightWrites = o.InFlightWrites,
            !.IgnoredSeqNums = o.IgnoredSeqNums]
  ELSE t

\* the epoch-scoped state with the sequence numbers of equal epochs added up
updateEpochScopedSumSequence(t, o) ==
  IF t.Epoch < o.Epoch
    THEN [t EXCEPT !.Epoch = o.Epoch, !.ReadTimestampFixed = o.ReadTimestampFixed,
                   !.Sequence = o.Sequence, !.LockSpans = o.LockSpans,
                   !.InFlightWrites = o.InFlightWrites,
                   !.IgnoredSeqNums = o.IgnoredSeqNums]
  ELSE IF t.Epoch = o.Epoch
    THEN [t EXCEPT
            !.ReadTimestampFixed =
               IF t.ReadTimestamp = o.ReadTimestamp THEN @ \/ o.ReadTimestampFixed
               ELSE IF Less(t.ReadTimestamp, o.ReadTimestamp) THEN o.ReadTimestampFixed
               ELSE @,
            !.Sequence = @ + o.Sequence,
            !.LockSpans = IF Len(o.LockSpans) > 0 THEN o.LockSpans ELSE @,
            !.InFlightWrites = IF Len(o.InFlightWrites) > 0 THEN o.InFlightWrites ELSE @,
            !.IgnoredSeqNums = IF Len(o.IgnoredSeqNums) > 0 THEN o.IgnoredSeqNums ELSE @]
  ELSE t

\* the epoch-scoped state of Update's receiver after the comparison of the epochs
updateEpochScoped(t, o) ==
  IF t.Epoch < o.Epoch
    THEN [t EXCEPT !.Epoch = o.Epoch, !.ReadTimestampFixed = o.ReadTimestampFixed,
                   !.Sequence = o.Sequence, !.LockSpans = o.LockSpans,
                   !.InFlightWrites = o.InFlightWrites,
                   !.IgnoredSeqNums = o.IgnoredSeqNums]
  ELSE IF t.Epoch = o.Epoch
    THEN [t EXCEPT
            !.ReadTimestampFixed =
               IF t.ReadTimestamp = o.ReadTimestamp THEN @ \/ o.ReadTimestampFixed
               ELSE IF Less(t.ReadTimestamp, o.ReadTimestamp) THEN o.ReadTimestampFixed
               ELSE @,
            !.Sequence = IF @ < o.Sequence THEN o.Sequence ELSE @,
            !.LockSpans = IF Len(o.LockSpans) > 0 THEN o.LockSpans ELSE @,
            !.InFlightWrites = IF Len(o.InFlightWrites) > 0 THEN o.InFlightWrites ELSE @,
            !.IgnoredSeqNums = IF Len(o.IgnoredSeqNums) > 0 THEN o.IgnoredSeqNums ELSE @]
  ELSE t

\* the heartbeat and the uncertainty limit taken from o, not forwarded
updateTimestampsAssign(t, o) ==
  [t EXCEPT
     !.WriteTimestamp = Forward(@, o.WriteTimestamp),
     !.LastHeartbeat = o.LastHeartbeat,
     !.GlobalUncertaintyLimit = o.GlobalUncertaintyLimit,
     !.ReadTimestamp = Forward(@, o.ReadTimestamp),
     !.MinTimestamp = IF IsEmpty(@) THEN o.MinTimestamp
                      ELSE IF ~IsEmpty(o.MinTimestamp) THEN Backward(@, o.MinTimestamp)
                      ELSE @]

\* the timestamps of Update's receiver
updateTimestamps(t, o) ==
  [t EXCEPT
     !.WriteTimestamp = Forward(@, o.WriteTimestamp),
     !.LastHeartbeat = Forward(@, o.LastHeartbeat),
     !.GlobalUncertaintyLimit = Forward(@, o.GlobalUncertaintyLimit),
     !.ReadTimestamp = Forward(@, o.ReadTimestamp),
     !.MinTimestamp = IF IsEmpty(@) THEN o.MinTimestamp
                      ELSE IF ~IsEmpty(o.MinTimestamp) THEN Backward(@, o.MinTimestamp)
                      ELSE @]

\* Update with an initialized o of the same transaction, or on a receiver
\* without an ID
Update(t, o) ==
  IF t.ID = 0 THEN o
  ELSE
    With([t EXCEPT !.Key = IF Len(@) = 0 THEN o.Key ELSE @,
                   !.IsoLevel = o.IsoLevel,
                   !.Status = updateStatus(t, o)], LAMBDA t1 :
    With(updateTimestamps(updateEpochScoped(t1, o), o), LAMBDA t2 :
    With(UpgradePriority(absorbObservedTimestamps(t2, o.ObservedTimestamps),
                         o.Priority), LAMBDA t3 :
      [t3 EXCEPT
         !.AdmissionPriority = IF o.AdmissionPriority # 0 THEN o.AdmissionPriority ELSE @,
         !.OmitInRangefeeds = IF o.OmitInRangefeeds THEN TRUE ELSE @])))

\* ----------------------------------------------- Transaction: other records
\* A record of the transaction as another party holds it: uuid 1, initialized.
OtherBase == MakeTransaction(1, <<1>>, 0, 1, <<1, 0>>, 1, 0, FALSE)

\* the epoch-scoped state another record may carry
EpochScoped ==
  {[Sequence |-> 0, ReadTimestampFixed |-> FALSE, LockSpans |-> <<>>,
    InFlightWrites |-> <<>>, IgnoredSeqNums |-> <<>>],
   [Sequence |-> MaxSequence, ReadTimestampFixed |-> TRUE, LockSpans |-> <<1>>,
    InFlightWrites |-> <<>>, IgnoredSeqNums |-> <<>>],
   [Sequence |-> MaxSequence, ReadTimestampFixed |-> FALSE, LockSpans |-> <<>>,
    InFlightWrites |-> <<1>>, IgnoredSeqNums |-> <<1>>],
   [Sequence |-> 0, ReadTimestampFixed |-> TRUE, LockSpans |-> <<2>>,
    InFlightWrites |-> <<2>>, IgnoredSeqNums |-> <<2>>]}

\* records of every status, at the first epochs, with each epoch-scoped state
StatusOthers ==
  {[OtherBase EXCEPT !.Status = st, !.Epoch = ep, !.Sequence = es.Sequence,
                     !.ReadTimestampFixed = es.ReadTimestampFixed,
                     !.LockSpans = es.LockSpans,
                     !.InFlightWrites = es.InFlightWrites,
                     !.IgnoredSeqNums = es.IgnoredSeqNums] :
     st \in TransactionStatuses, ep \in 0..1, es \in EpochScoped}

\* records at every time: as MakeTransaction leaves them, with the write
\* timestamp pushed above the read timestamp, and as AsTransaction makes them
\* from a transaction record (no read timestamp, no uncertainty limit)
TimestampOthers ==
  UNION {
    {[OtherBase EXCEPT !.Epoch = ep, !.WriteTimestamp = tm, !.MinTimestamp = tm,
                       !.LastHeartbeat = tm, !.ReadTimestamp = tm,
                       !.GlobalUncertaintyLimit = AddTimestamp(tm, 1, 0)],
     [OtherBase EXCEPT !.Epoch = ep, !.WriteTimestamp = tm],
     [OtherBase EXCEPT !.Epoch = ep, !.WriteTimestamp = tm, !.MinTimestamp = tm,
                       !.LastHeartbeat = EmptyTimestamp,
                       !.ReadTimestamp = EmptyTimestamp,
                       !.GlobalUncertaintyLimit = EmptyTimestamp]} :
    tm \in TxnTimestamps, ep \in 0..1}

PriorityOthers == {[OtherBase EXCEPT !.Priority = p] : p \in TxnPriorities}

\* the sorted lists of observed timestamps another record may carry
ObservedLists ==
  {<<>>} \cup
  {<<[NodeID |-> n, Timestamp |-> tm]>> : n \in 1..MaxNode, tm \in {<<1, 0>>, <<MaxWall, 0>>}}
  \cup {<<[NodeID |-> 1, Timestamp |-> <<1, 0>>], [NodeID |-> MaxNode, Timestamp |-> <<1, 0>>]>>}

OtherFields ==
  {[OtherBase EXCEPT !.Key = <<>>], [OtherBase EXCEPT !.IsoLevel = 1],
   [OtherBase EXCEPT !.AdmissionPriority = 1],
   [OtherBase EXCEPT !.OmitInRangefeeds = TRUE]} \cup
  {[OtherBase EXCEPT !.ObservedTimestamps = l] : l \in ObservedLists}

\* the records Update is called with
Others == StatusOthers \cup TimestampOthers \cup PriorityOthers \cup OtherFields

\* -------------------------------------------------------------------- Lease
\* A *hlc.Timestamp field: the pointer and the timestamp it points to.  ptr 0
\* is nil; two fields with the same ptr point to the same timestamp, so that
\* equality of these records is Go's equality of the pointers.
NilTimestamp == [ptr |-> 0, ts |-> EmptyTimestamp]

PtrTo(p, ts) == [ptr |-> p, ts |-> ts]

\* Timestamp.LessEq
LessEq(t, s) == t[1] < s[1] \/ (t[1] = s[1] /\ t[2] <= s[2])

ZeroReplica == [NodeID |-> 0, StoreID |-> 0, ReplicaID |-> 0, Type |-> 0]

ZeroLease == [Start |-> EmptyTimestamp, Expiration |-> NilTimestamp, Replica |-> ZeroReplica, DeprecatedStartStasis |-> NilTimestamp, ProposedTS |-> EmptyTimestamp, Epoch |-> 0, Sequence |-> 0, AcquisitionType |-> 0, MinExpiration |-> EmptyTimestamp, Term |-> 0]

\* Lease.Type
Type(l) ==
  IF l.Epoch # 0 /\ l.Term # 0 THEN "panic"
  ELSE IF l.Epoch # 0 THEN "LeaseEpoch"
  ELSE IF l.Term # 0 THEN "LeaseLeader"
  ELSE "LeaseExpiration"

\* Lease.GetExpiration
GetExpiration(l) == IF l.Expiration = NilTimestamp THEN EmptyTimestamp ELSE l.Expiration.ts

\* the fields Equivalent ignores, left as they are
IgnoreFieldsNone(l) == l

\* the fields Equivalent ignores for every pair of leases
IgnoreFields(l) == [l EXCEPT !.ProposedTS = EmptyTimestamp, !.DeprecatedStartStasis = NilTimestamp, !.Sequence = 0, !.AcquisitionType = 0, !.Replica.Type = 0]

\* The switch of Equivalent, one operator per case of l.Type(): the pair
\* <<l, newL>> the case leaves to be compared.
ZeroMinExpiration(l, newL) ==
  IF LessEq(l.MinExpiration, newL.MinExpiration)
    THEN <<[l EXCEPT !.MinExpiration = EmptyTimestamp], [newL EXCEPT !.MinExpiration = EmptyTimestamp]>>
    ELSE <<l, newL>>

caseLeaseEpoch(l, newL) ==
  LET l1 == [l EXCEPT !.Expiration = NilTimestamp]
      n1 == [newL EXCEPT !.Expiration = NilTimestamp]
  IN  IF l1.Epoch = n1.Epoch
        THEN ZeroMinExpiration([l1 EXCEPT !.Epoch = 0], [n1 EXCEPT !.Epoch = 0])
        ELSE ZeroMinExpiration(l1, n1)

caseLeaseLeader(l, newL) ==
  IF l.Term = newL.Term
    THEN ZeroMinExpiration([l EXCEPT !.Term = 0], [newL EXCEPT !.Term = 0])
    ELSE ZeroMinExpiration(l, newL)

\* an expiration-based lease replaced by an expiration-based lease
caseExtension(l, newL) ==
  LET l1 == [l EXCEPT !.Epoch = 0]
      n1 == [newL EXCEPT !.Epoch = 0]
  IN  IF LessEq(GetExpiration(l1), GetExpiration(n1))
        THEN <<[l1 EXCEPT !.Expiration = NilTimestamp], [n1 EXCEPT !.Expiration = NilTimestamp]>>
        ELSE <<l1, n1>>

\* an expiration-based lease promoted to an epoch-based lease, with the flag
caseEpochPromotion(l, newL) == <<[l EXCEPT !.Expiration = NilTimestamp], [newL EXCEPT !.Epoch = 0, !.MinExpiration = EmptyTimestamp]>>

\* an expiration-based lease promoted to a leader lease
caseLeaderPromotion(l, newL) == <<[l EXCEPT !.Expiration = NilTimestamp], [newL EXCEPT !.Term = 0, !.MinExpiration = EmptyTimestamp]>>

\* the switch with a demotion treated as a promotion is
EquivalentSwitchSymmetric(l, newL, expToEpochEquiv) ==
  CASE Type(l) = "LeaseEpoch" ->
         IF Type(newL) = "LeaseExpiration" /\ expToEpochEquiv
           THEN <<caseEpochPromotion(newL, l)[2], caseEpochPromotion(newL, l)[1]>>
           ELSE caseLeaseEpoch(l, newL)
    [] Type(l) = "LeaseLeader" ->
         IF Type(newL) = "LeaseExpiration"
           THEN <<caseLeaderPromotion(newL, l)[2], caseLeaderPromotion(newL, l)[1]>>
           ELSE caseLeaseLeader(l, newL)
    [] Type(l) = "LeaseExpiration" ->
         CASE Type(newL) = "LeaseEpoch" -> IF expToEpochEquiv THEN caseEpochPromotion(l, newL) ELSE <<l, newL>>
           [] Type(newL) = "LeaseLeader" -> caseLeaderPromotion(l, newL)
           [] Type(newL) = "LeaseExpiration" -> caseExtension(l, newL)

\* the switch with a promotion allowed only to a lease whose minimum
\* expiration is not earlier than the old lease's expiration
EquivalentSwitchCheckValidity(l, newL, expToEpochEquiv) ==
  CASE Type(l) = "LeaseEpoch" -> caseLeaseEpoch(l, newL)
    [] Type(l) = "LeaseLeader" -> caseLeaseLeader(l, newL)
    [] Type(l) = "LeaseExpiration" ->
         CASE Type(newL) = "LeaseEpoch" ->
                IF expToEpochEquiv /\ LessEq(GetExpiration(l), newL.MinExpiration)
                  THEN caseEpochPromotion(l, newL) ELSE <<l, newL>>
           [] Type(newL) = "LeaseLeader" ->
                IF LessEq(GetExpiration(l), newL.MinExpiration)
                  THEN caseLeaderPromotion(l, newL) ELSE <<l, newL>>
           [] Type(newL) = "LeaseExpiration" -> caseExtension(l, newL)

\* the switch of Equivalent
EquivalentSwitch(l, newL, expToEpochEquiv) ==
  CASE Type(l) = "LeaseEpoch" -> caseLeaseEpoch(l, newL)
    [] Type(l) = "LeaseLeader" -> caseLeaseLeader(l, newL)
    [] Type(l) = "LeaseExpiration" ->
         CASE Type(newL) = "LeaseEpoch" -> IF expToEpochEquiv THEN caseEpochPromotion(l, newL) ELSE <<l, newL>>
           [] Type(newL) = "LeaseLeader" -> caseLeaderPromotion(l, newL)
           [] Type(newL) = "LeaseExpiration" -> caseExtension(l, newL)

\* Lease.Equivalent
Equivalent(l, newL, expToEpochEquiv) ==
  With(EquivalentSwitch(IgnoreFields(l), IgnoreFields(newL), expToEpochEquiv),
       LAMBDA pair : pair[1] = pair[2])

\* The leases Equivalent is called with: exactly one of expiration, epoch and
\* term is set; only epoch and leader leases carry a minimum expiration.  p
\* is the pointer of the lease's *hlc.Timestamp fields.
LeaseTimestamps == {<<w, 0>> : w \in 1..MaxWall}

LeaseReplicas == {[NodeID |-> n, StoreID |-> n, ReplicaID |-> n, Type |-> 0] : n \in 1..MaxNode}

\* a lease as proposed (every ignored field zero) or as applied
LeaseBases(p) ==
  {[ZeroLease EXCEPT !.Replica = r, !.Start = s] : r \in LeaseReplicas, s \in LeaseTimestamps} \cup
  {[ZeroLease EXCEPT !.Replica = [r EXCEPT !.Type = 1], !.Start = s, !.ProposedTS = s, !.DeprecatedStartStasis = PtrTo(p + 2, s), !.Sequence = 1, !.AcquisitionType = 1] : r \in LeaseReplicas, s \in LeaseTimestamps}

ExpirationLeases(p) == {[base EXCEPT !.Expiration = PtrTo(p, e)] : base \in LeaseBases(p), e \in LeaseTimestamps}

EpochLeases(p) == {[base EXCEPT !.Epoch = e, !.MinExpiration = m] : base \in LeaseBases(p), e \in 1..MaxEpoch, m \in LeaseTimestamps \cup {EmptyTimestamp}}

LeaderLeases(p) == {[base EXCEPT !.Term = t, !.MinExpiration = m] : base \in LeaseBases(p), t \in 1..MaxEpoch, m \in LeaseTimestamps \cup {EmptyTimestamp}}

Leases(p) == ExpirationLeases(p) \cup EpochLeases(p) \cup LeaderLeases(p)

NoLeaseCall == [l |-> ZeroLease, newL |-> ZeroLease, expToEpochEquiv |-> FALSE, called |-> FALSE, equivalent |-> FALSE]

\* --------------------------------------------------------------------- Span
\* Span.Overlaps
Overlaps(s, o) ==
  IF ~Valid(s) \/ ~Valid(o) THEN FALSE
  ELSE IF Len(s.EndKey) = 0 /\ Len(o.EndKey) = 0 THEN s.Key = o.Key
  ELSE IF Len(s.EndKey) = 0 THEN KeyCompare(s.Key, o.Key) >= 0 /\ KeyCompare(s.Key, o.EndKey) < 0
  ELSE IF Len(o.EndKey) = 0 THEN KeyCompare(o.Key, s.Key) >= 0 /\ KeyCompare(o.Key, s.EndKey) < 0
  ELSE KeyCompare(s.EndKey, o.Key) > 0 /\ KeyCompare(s.Key, o.EndKey) < 0

\* Intersect without its check that the spans overlap
IntersectUnchecked(s, o) ==
  IF Len(s.EndKey) = 0 THEN s
  ELSE IF Len(o.EndKey) = 0 THEN o
  ELSE MakeSpan(IF KeyCompare(s.Key, o.Key) < 0 THEN o.Key ELSE s.Key,
                IF KeyCompare(s.EndKey, o.EndKey) > 0 THEN o.EndKey ELSE s.EndKey)

\* Span.Intersect
Intersect(s, o) ==
  IF ~Overlaps(s, o) THEN ZeroSpan
  ELSE IF Len(s.EndKey) = 0 THEN s
  ELSE IF Len(o.EndKey) = 0 THEN o
  ELSE MakeSpan(IF KeyCompare(s.Key, o.Key) < 0 THEN o.Key ELSE s.Key,
                IF KeyCompare(s.EndKey, o.EndKey) > 0 THEN o.EndKey ELSE s.EndKey)

\* Span.Contains
Contains(s, o) ==
  IF ~Valid(s) \/ ~Valid(o) THEN FALSE
  ELSE IF Len(s.EndKey) = 0 /\ Len(o.EndKey) = 0 THEN s.Key = o.Key
  ELSE IF Len(s.EndKey) = 0 THEN FALSE
  ELSE IF Len(o.EndKey) = 0 THEN KeyCompare(o.Key, s.Key) >= 0 /\ KeyCompare(o.Key, s.EndKey) < 0
  ELSE KeyCompare(s.Key, o.Key) <= 0 /\ KeyCompare(s.EndKey, o.EndKey) >= 0

\* The spans the methods are called with: every pair of keys, the empty key
\* (KeyMin, or no end key) included, and [k, k.Next()) for every key k.
SpanKeys == AllKeys \cup {NoKey}

Spans == {MakeSpan(k, e) : k \in SpanKeys, e \in SpanKeys} \cup {MakeSpan(k, KeyNext(k)) : k \in SpanKeys}

NoSpanCall == [s |-> ZeroSpan, o |-> ZeroSpan, op |-> "", overlaps |-> FALSE, contains |-> FALSE, intersect |-> ZeroSpan]

\* -------------------------------------------------------------------- Value
checksumUninitialized == 0

checksumSize == 4

tagPos == checksumSize

headerSize == tagPos + 1

extendedMVCCValLenSize == 4

\* ValueType: the tags
ValueType_UNKNOWN == 0

ValueType_INT == 1

ValueType_FLOAT == 2

ValueType_BYTES == 3

ValueType_TIME == 5

ValueType_DECIMAL == 6

ValueType_DURATION == 8

ValueType_TUPLE == 10

ValueType_BITARRAY == 11

ValueType_TIMETZ == 12

ValueType_GEO == 13

ValueType_BOX2D == 14

ValueType_TIMESERIES == 100

ValueType_MVCC_EXTENDED_ENCODING_SENTINEL == 101

\* A uint32 is the pair <<high 16 bits, low 16 bits>>.
RECURSIVE BitXor(_, _)
BitXor(x, y) ==
  IF x = 0 THEN y
  ELSE IF y = 0 THEN x
  ELSE 2 * BitXor(x \div 2, y \div 2) + ((x + y) % 2)

Xor32(x, y) == <<BitXor(x[1], y[1]), BitXor(x[2], y[2])>>

ShiftRight32(x, n) == <<x[1] \div (2 ^ n), (x[2] \div (2 ^ n)) + (x[1] % (2 ^ n)) * (2 ^ (16 - n))>>

\* crc32.IEEE: the reversed polynomial 0xedb88320, and its table
IEEE == <<60856, 33568>>

RECURSIVE crcTableEntry(_, _)
crcTableEntry(crc, rounds) ==
  IF rounds = 0 THEN crc
  ELSE IF crc[2] % 2 = 1
    THEN crcTableEntry(Xor32(ShiftRight32(crc, 1), IEEE), rounds - 1)
    ELSE crcTableEntry(ShiftRight32(crc, 1), rounds - 1)

IEEETable == [i \in 0..255 |-> crcTableEntry(<<0, i>>, 8)]

\* crc32: the digest after writing the bytes p to a digest at crc
RECURSIVE crcUpdate(_, _, _)
crcUpdate(crc, p, i) ==
  IF i > Len(p) THEN crc
  ELSE With(Xor32(IEEETable[BitXor(crc[2] % 256, p[i])], ShiftRight32(crc, 8)),
            LAMBDA next : crcUpdate(next, p, i + 1))

\* crc.Write(p) then crc.Sum32() on a digest that was Reset
Sum32(p) == Xor32(crcUpdate(<<65535, 65535>>, p, 1), <<65535, 65535>>)

\* encoding.EncodeUint32Ascending and DecodeUint32Ascending: big-endian
EncodeUint32Ascending(x) == <<x[1] \div 256, x[1] % 256, x[2] \div 256, x[2] % 256>>

DecodeUint32Ascending(p) == <<p[1] * 256 + p[2], p[3] * 256 + p[4]>>

\* binary.BigEndian.Uint32, for the lengths that fit an int
BigEndianUint32(p) == ((p[1] * 256 + p[2]) * 256 + p[3]) * 256 + p[4]

Uint32(n) == <<0, n>>

\* A Value: backing is the array RawBytes points into (its length is
\* cap(RawBytes)) and len is len(RawBytes); RawBytes is nil when there is no
\* array.
ZeroValue == [backing |-> <<>>, len |-> 0]

RawBytes(v) == SubSeq(v.backing, 1, v.len)

\* copy(v.RawBytes[pos:], p)
WriteAt(v, pos, p) == [v EXCEPT !.backing = [i \in 1..Len(v.backing) |-> IF i > pos /\ i <= pos + Len(p) THEN p[i - pos] ELSE v.backing[i]]]

Zeros(n) == [i \in 1..n |-> 0]

usesExtendedEncoding(v) == v.len > headerSize /\ v.backing[tagPos + 1] = ValueType_MVCC_EXTENDED_ENCODING_SENTINEL

extendedSimpleTagPos(v) == extendedMVCCValLenSize + BigEndianUint32(RawBytes(v)) + headerSize

\* Value.checksum
checksum(v) ==
  IF v.len < checksumSize THEN Uint32(0)
  ELSE IF usesExtendedEncoding(v)
    THEN LET extendedHeaderSize == extendedMVCCValLenSize + BigEndianUint32(RawBytes(v))
         IN  IF v.len < extendedHeaderSize + headerSize THEN Uint32(0)
             ELSE DecodeUint32Ascending(SubSeq(RawBytes(v), extendedHeaderSize + 2, extendedHeaderSize + 1 + checksumSize))
    ELSE DecodeUint32Ascending(SubSeq(RawBytes(v), 1, checksumSize))

\* Value.setChecksum
setChecksum(v, cksum) == IF v.len >= checksumSize THEN WriteAt(v, 0, EncodeUint32Ascending(cksum)) ELSE v

\* computeChecksum(key, rawBytes, crc)
computeChecksum(key, rawBytes) ==
  IF Len(rawBytes) < headerSize THEN Uint32(0)
  ELSE LET simple == IF rawBytes[tagPos + 1] = ValueType_MVCC_EXTENDED_ENCODING_SENTINEL
                       THEN SubSeq(rawBytes, extendedMVCCValLenSize + BigEndianUint32(rawBytes) + 2, Len(rawBytes))
                       ELSE rawBytes
       IN  IF Len(simple) < headerSize THEN Uint32(0)
           ELSE With(Sum32(key \o SubSeq(simple, checksumSize + 1, Len(simple))),
                     LAMBDA sum : IF sum = Uint32(checksumUninitialized) THEN Uint32(1) ELSE sum)

\* Value.InitChecksum; panic is set when the checksum was initialized already
InitChecksum(v, key) ==
  IF v.backing = <<>> THEN [v |-> v, panic |-> FALSE]
  ELSE IF checksum(v) # Uint32(checksumUninitialized) THEN [v |-> v, panic |-> TRUE]
  ELSE [v |-> setChecksum(v, computeChecksum(key, RawBytes(v))), panic |-> FALSE]

\* Value.ClearChecksum
ClearChecksum(v) == setChecksum(v, Uint32(0))

\* Value.VerifyHeader: "" is nil
VerifyHeader(v) == IF v.len > 0 /\ v.len < headerSize THEN "header" ELSE ""

\* Value.Verify: "" is nil
Verify(v, key) ==
  IF VerifyHeader(v) # "" THEN VerifyHeader(v)
  ELSE IF checksum(v) # Uint32(0) /\ computeChecksum(key, RawBytes(v)) # checksum(v) THEN "checksum"
  ELSE ""

\* Value.GetTag
GetTag(v) ==
  IF v.len <= tagPos THEN ValueType_UNKNOWN
  ELSE IF v.backing[tagPos + 1] = ValueType_MVCC_EXTENDED_ENCODING_SENTINEL
    THEN IF v.len <= extendedSimpleTagPos(v) THEN ValueType_UNKNOWN
         ELSE v.backing[extendedSimpleTagPos(v) + 1]
    ELSE v.backing[tagPos + 1]

\* setTag that sets the tag of INT whatever the type
setTagINT(v, t) == WriteAt(v, tagPos, <<ValueType_INT>>)

\* Value.setTag
setTag(v, t) == WriteAt(v, tagPos, <<t>>)

\* the position in RawBytes where dataBytes starts
dataStart(v) == IF usesExtendedEncoding(v) THEN extendedSimpleTagPos(v) + 1 ELSE headerSize

\* Value.dataBytes
dataBytes(v) == SubSeq(RawBytes(v), dataStart(v) + 1, v.len)

\* ensureRawBytes without the reset of the checksum of an array that is kept
ensureRawBytesKeepChecksum(v, size) ==
  IF Len(v.backing) < size THEN [backing |-> Zeros(size), len |-> size]
  ELSE [v EXCEPT !.len = size]

\* Value.ensureRawBytes
ensureRawBytes(v, size) ==
  IF Len(v.backing) < size THEN [backing |-> Zeros(size), len |-> size]
  ELSE setChecksum([v EXCEPT !.len = size], Uint32(checksumUninitialized))

\* v.RawBytes = append(v.RawBytes[:headerSize], p...): in place when the
\* array has room for it, in a new array otherwise
AppendAtHeader(v, p) ==
  IF headerSize + Len(p) <= Len(v.backing)
    THEN WriteAt([v EXCEPT !.len = headerSize + Len(p)], headerSize, p)
    ELSE [backing |-> SubSeq(v.backing, 1, headerSize) \o p, len |-> headerSize + Len(p)]

\* binary.PutUvarint and binary.PutVarint
RECURSIVE PutUvarint(_)
PutUvarint(x) == IF x < 128 THEN <<x>> ELSE <<(x % 128) + 128>> \o PutUvarint(x \div 128)

PutVarint(x) == PutUvarint(IF x < 0 THEN -2 * x - 1 ELSE 2 * x)

MaxVarintLen64 == 10

\* binary.Uvarint and binary.Varint: the value and the number of bytes read,
\* which is 0 when the bytes end before the number does
RECURSIVE Uvarint(_, _)
Uvarint(p, i) ==
  IF i > Len(p) THEN [x |-> 0, n |-> 0]
  ELSE IF p[i] < 128 THEN [x |-> p[i], n |-> i]
  ELSE With(Uvarint(p, i + 1), LAMBDA r : IF r.n = 0 THEN r ELSE [x |-> (p[i] - 128) + 128 * r.x, n |-> r.n])

Varint(p) ==
  With(Uvarint(p, 1), LAMBDA r : [x |-> IF r.x % 2 = 1 THEN -((r.x + 1) \div 2) ELSE r.x \div 2, n |-> r.n])

\* A protobuf message with one varint field, number 1: Size, Marshal and
\* Unmarshal.  fails is set for a message that cannot be marshalled.
Size(msg) == IF msg.n = 0 THEN 0 ELSE 1 + Len(PutUvarint(msg.n))

Marshal(msg) == IF msg.n = 0 THEN <<>> ELSE <<8>> \o PutUvarint(msg.n)

Unmarshal(p) ==
  IF p = <<>> THEN [err |-> "", n |-> 0]
  ELSE IF p[1] = 8 /\ Uvarint(p, 2).n = Len(p) THEN [err |-> "", n |-> Uvarint(p, 2).x]
  ELSE [err |-> "unmarshal", n |-> 0]

\* The encodings of package encoding for time, timetz, duration, bit array
\* and decimal values: a value is a number, its encoding the number's
\* uvarint, and every setter reserves encodingSizeOverestimate bytes for it.
encodingSizeOverestimate == 11

Encode(x) == PutUvarint(x)

Decode(p) == IF Uvarint(p, 1).n = Len(p) /\ Len(p) > 0 THEN [err |-> "", x |-> Uvarint(p, 1).x] ELSE [err |-> "decode", x |-> 0]

\* what a setter hands back: the value and the error ("" is nil)
Set(v, err) == [v |-> v, err |-> err]

\* what a getter hands back: the error ("" is nil, "tag" the tag mismatch)
\* and, without an error, the decoded value
Got(x) == [err |-> "", decoded |-> <<x>>]

GetErr(err) == [err |-> err, decoded |-> <<>>]

\* Value.SetBytes
SetBytes(v, bytes) ==
  With(ensureRawBytes(v, headerSize + Len(bytes)),
       LAMBDA w : Set(setTag(WriteAt(w, dataStart(w), bytes), ValueType_BYTES), ""))

\* Value.SetString
SetString(v, s) ==
  With(ensureRawBytes(v, headerSize + Len(s)),
       LAMBDA w : Set(setTag(WriteAt(w, dataStart(w), s), ValueType_BYTES), ""))

\* Value.SetFloat; f is the eight bytes of math.Float64bits(f), big-endian
SetFloat(v, f) == Set(setTag(WriteAt(ensureRawBytes(v, headerSize + 8), headerSize, f), ValueType_FLOAT), "")

\* Value.SetGeo
SetGeo(v, so) ==
  IF so.fails THEN Set(v, "marshal")
  ELSE With(ensureRawBytes(v, headerSize + Len(Marshal(so))),
            LAMBDA w : Set(setTag(WriteAt(w, dataStart(w), Marshal(so)), ValueType_GEO), ""))

\* Value.SetBox2D
SetBox2D(v, box) == Set(setTag(WriteAt(ensureRawBytes(v, headerSize + 32), headerSize, box.LoX \o box.HiX \o box.LoY \o box.HiY), ValueType_BOX2D), "")

\* Value.SetBool
SetBool(v, flag) == Set(setTag(WriteAt(ensureRawBytes(v, headerSize + 1), headerSize, PutVarint(IF flag THEN 1 ELSE 0)), ValueType_INT), "")

\* Value.SetInt
SetInt(v, i) ==
  With(WriteAt(ensureRawBytes(v, headerSize + MaxVarintLen64), headerSize, PutVarint(i)),
       LAMBDA w : Set(setTag([w EXCEPT !.len = headerSize + Len(PutVarint(i))], ValueType_INT), ""))

\* Value.SetProto
SetProto(v, msg) ==
  With(ensureRawBytes(v, headerSize + Size(msg)),
       LAMBDA w : IF msg.fails THEN Set(w, "marshal")
                  ELSE Set(setTag(WriteAt(w, headerSize, Marshal(msg)), IF msg.timeseries THEN ValueType_TIMESERIES ELSE ValueType_BYTES), ""))

\* Value.SetTime
SetTime(v, t) == Set(setTag(AppendAtHeader(ensureRawBytes(v, headerSize + encodingSizeOverestimate), Encode(t)), ValueType_TIME), "")

\* Value.SetTimeTZ
SetTimeTZ(v, t) == Set(setTag(AppendAtHeader(ensureRawBytes(v, headerSize + encodingSizeOverestimate), Encode(t)), ValueType_TIMETZ), "")

\* Value.SetDuration; a duration that cannot be encoded is one above MaxEncoded
SetDuration(v, t) ==
  With(ensureRawBytes(v, headerSize + encodingSizeOverestimate),
       LAMBDA w : IF t > MaxEncoded THEN Set(ZeroValue, "encode")
                  ELSE Set(setTag(AppendAtHeader(w, Encode(t)), ValueType_DURATION), ""))

\* Value.SetBitArray
SetBitArray(v, t) == Set(setTag(AppendAtHeader(ensureRawBytes(v, headerSize + encodingSizeOverestimate), Encode(t)), ValueType_BITARRAY), "")

\* Value.SetDecimal
SetDecimal(v, dec) == Set(setTag(AppendAtHeader(ensureRawBytes(v, headerSize + encodingSizeOverestimate), Encode(dec)), ValueType_DECIMAL), "")

\* Value.SetTuple
SetTuple(v, data) ==
  With(ensureRawBytes(v, headerSize + Len(data)),
       LAMBDA w : Set(setTag(WriteAt(w, dataStart(w), data), ValueType_TUPLE), ""))

\* Value.GetBytes
GetBytes(v) == IF GetTag(v) # ValueType_BYTES THEN GetErr("tag") ELSE Got(dataBytes(v))

\* Value.GetFloat
GetFloat(v) ==
  IF GetTag(v) # ValueType_FLOAT THEN GetErr("tag")
  ELSE IF Len(dataBytes(v)) # 8 THEN GetErr("length")
  ELSE Got(dataBytes(v))

\* Value.GetGeo
GetGeo(v) ==
  IF GetTag(v) # ValueType_GEO THEN GetErr("tag")
  ELSE IF Unmarshal(dataBytes(v)).err # "" THEN GetErr("unmarshal")
  ELSE Got(Unmarshal(dataBytes(v)).n)

\* Value.GetBox2D
GetBox2D(v) ==
  IF GetTag(v) # ValueType_BOX2D THEN GetErr("tag")
  ELSE IF Len(dataBytes(v)) # 32 THEN GetErr("length")
  ELSE Got([LoX |-> SubSeq(dataBytes(v), 1, 8), HiX |-> SubSeq(dataBytes(v), 9, 16), LoY |-> SubSeq(dataBytes(v), 17, 24), HiY |-> SubSeq(dataBytes(v), 25, 32)])

\* Value.GetBool
GetBool(v) ==
  IF GetTag(v) # ValueType_INT THEN GetErr("tag")
  ELSE IF Varint(dataBytes(v)).n <= 0 THEN GetErr("varint")
  ELSE IF Varint(dataBytes(v)).x > 1 \/ Varint(dataBytes(v)).x < 0 THEN GetErr("invalid bool")
  ELSE Got(Varint(dataBytes(v)).x # 0)

\* Value.GetInt
GetInt(v) ==
  IF GetTag(v) # ValueType_INT THEN GetErr("tag")
  ELSE IF Varint(dataBytes(v)).n <= 0 THEN GetErr("varint")
  ELSE Got(Varint(dataBytes(v)).x)

\* Value.GetProto; timeseries is set for an InternalTimeSeriesData message
GetProto(v, timeseries) ==
  IF GetTag(v) # (IF timeseries THEN ValueType_TIMESERIES ELSE ValueType_BYTES) THEN GetErr("tag")
  ELSE IF Unmarshal(dataBytes(v)).err # "" THEN GetErr("unmarshal")
  ELSE Got(Unmarshal(dataBytes(v)).n)

\* the getters of the values package encoding encodes
GetEncoded(v, tag) ==
  IF GetTag(v) # tag THEN GetErr("tag")
  ELSE IF Decode(dataBytes(v)).err # "" THEN GetErr("decode")
  ELSE Got(Decode(dataBytes(v)).x)

\* Value.GetTime
GetTime(v) == GetEncoded(v, ValueType_TIME)

\* Value.GetTimeTZ
GetTimeTZ(v) == GetEncoded(v, ValueType_TIMETZ)

\* Value.GetDuration
GetDuration(v) == GetEncoded(v, ValueType_DURATION)

\* Value.GetBitArray
GetBitArray(v) == GetEncoded(v, ValueType_BITARRAY)

\* Value.GetDecimal
GetDecimal(v) == GetEncoded(v, ValueType_DECIMAL)

\* Value.GetTimeseries
GetTimeseries(v) == GetProto(v, TRUE)

\* Value.GetTuple
GetTuple(v) == IF GetTag(v) # ValueType_TUPLE THEN GetErr("tag") ELSE Got(dataBytes(v))

\* The arguments of the setters.
ByteStrings == {<<>>, <<1>>, <<1, 2>>}

Floats == {Zeros(8), <<63, 240, 0, 0, 0, 0, 0, 0>>}

Boxes == {[LoX |-> Zeros(8), HiX |-> f, LoY |-> Zeros(8), HiY |-> f] : f \in Floats}

Ints == {-1, 0, 1, 64}

Messages == {[n |-> n, timeseries |-> ts, fails |-> FALSE] : n \in 0..1, ts \in BOOLEAN} \cup {[n |-> 1, timeseries |-> FALSE, fails |-> TRUE]}

SpatialObjects == {[n |-> 1, fails |-> f] : f \in BOOLEAN}

Encoded == {0, MaxEncoded}

ChecksumKeys == {<<>>, <<1>>}

\* set is the logical type the value was last set with, get the one asked for
\* and after, afterKey and afterPanic the call before a Verify
NoValOp == [op |-> "Make", set |-> "", get |-> "", err |-> "", key |-> NoKey, decoded |-> <<>>, panic |-> FALSE, after |-> "", afterKey |-> NoKey, afterPanic |-> FALSE]

\* ------------------------------------------------------------ specification
\* The configurations the constructors produce.
NewBatcher(skip, all, shadow, atTS, noScatter, cache, cb) ==
  Reset(
  [skipDuplicates |-> skip, ingestAll |-> all, disallowShadowingBelow |-> shadow,
   writeAtBatchTS |-> atTS, disableScatters |-> noScatter, rc |-> cache,
   batchTS |-> 0, currentStats |-> ZeroStats,
   batchRowCounter |-> [prev |-> NoKey, BulkOpSummary |-> ZeroSummary],
   sstWriter |-> [DataSize |-> 0, open |-> TRUE], sstFile |-> <<>>,
   batchStartKey |-> NoKey, batchEndKey |-> NoKey, batchEndValue |-> <<>>,
   batchEndTimestamp |-> 0, flushKeyChecked |-> FALSE, flushKey |-> NoKey,
   lastRange |-> [span |-> ZeroSpan, remaining |-> 0, nextExistingKey |-> NoKey],
   ms |-> ZeroMS, maxWriteTS |-> 0, totalBulkOpSummary |-> ZeroSummary,
   totalStats |-> ZeroStats, onFlush |-> cb])

\* MakeSSTBatcher
MakeSSTBatcher ==
  {NewBatcher(FALSE, FALSE, shadow, atTS, ~scatter, FALSE, FALSE) :
     shadow \in BOOLEAN, atTS \in BOOLEAN, scatter \in BOOLEAN}

\* MakeStreamSSTBatcher
MakeStreamSSTBatcher ==
  {NewBatcher(FALSE, TRUE, FALSE, FALSE, TRUE, cache, cb) :
     cache \in BOOLEAN, cb \in BOOLEAN}

\* MakeTestingSSTBatcher; ingestAll is only set when skipDuplicates is not
MakeTestingSSTBatcher ==
  {NewBatcher(m[1], m[2], FALSE, FALSE, FALSE, FALSE, FALSE) :
     m \in {x \in BOOLEAN \X BOOLEAN : ~(x[1] /\ x[2])}}

Init ==
  /\ b \in MakeSSTBatcher \cup MakeStreamSSTBatcher \cup MakeTestingSSTBatcher
  /\ clock = 1
  /\ limiterHeld = 0
  /\ sent = <<>>
  /\ flushed = <<>>
  /\ added = <<>>
  /\ lastOp = [op |-> "Make", key |-> NoKey, ts |-> 0, value |-> <<>>,
               err |-> "", calls |-> <<>>]
  /\ ops = 0
  /\ waited = 0
  /\ txn = ZeroTransaction
  /\ lastTxnOp = NoTxnOp
  /\ txnOps = 0
  /\ leaseCall = NoLeaseCall
  /\ spanCall = NoSpanCall
  /\ roachValue = ZeroValue
  /\ lastValOp = NoValOp
  /\ valOps = 0

DoAddMVCCKey ==
  /\ ops < MaxOps
  /\ \E key \in AllKeys, ts \in Timestamps, value \in Values :
       /\ KeyCompare(key, b.batchEndKey) >= 0
       /\ (key # b.batchEndKey => ts = 1 /\ value = <<1>>)
       /\ \E e \in AddEnvs(b, key, ts, value, clock) :
            \E r \in {AddMVCCKey(b, key, ts, value, e, clock)} :
                /\ b' = r.b
                /\ limiterHeld' = limiterHeld + r.held
                /\ sent' = sent \o r.sent
                /\ flushed' = flushed \o r.flushed
                /\ added' = IF r.err = "" /\ r.b.sstFile # b.sstFile
                              THEN Append(added, r.b.sstFile[Len(r.b.sstFile)])
                              ELSE added
                /\ lastOp' = [op |-> "AddMVCCKey", key |-> key, ts |-> ts,
                              value |-> value, err |-> r.err, calls |-> r.calls]
  /\ ops' = ops + 1
  /\ UNCHANGED <<clock, waited, txnVars, dataVars>>

DoFlush ==
  /\ ops < MaxOps
  /\ \E e \in ManualEnvs(b, clock) :
       \E r \in {Flush(b, e, clock)} :
           /\ b' = r.b
           /\ clock' = r.clock
           /\ waited' = IF r.err = "" THEN Len(sent \o r.sent) ELSE waited
           /\ limiterHeld' = limiterHeld + r.held
           /\ sent' = sent \o r.sent
           /\ flushed' = flushed \o r.flushed
           /\ lastOp' = [op |-> "Flush", key |-> NoKey, ts |-> 0, value |-> <<>>,
                         err |-> r.err, calls |-> r.calls]
  /\ ops' = ops + 1
  /\ UNCHANGED <<added, txnVars, dataVars>>

DoReset ==
  /\ ops < MaxOps
  /\ ops' = ops + 1
  /\ b' = Reset(b)
  /\ lastOp' = [op |-> "Reset", key |-> NoKey, ts |-> 0, value |-> <<>>,
                err |-> "", calls |-> <<>>]
  /\ UNCHANGED <<clock, limiterHeld, sent, flushed, added, waited, txnVars, dataVars>>

DoSetOnFlush ==
  /\ ops < MaxOps
  /\ ops' = ops + 1
  /\ \E cb \in BOOLEAN : b' = [b EXCEPT !.onFlush = cb]
  /\ lastOp' = [op |-> "SetOnFlush", key |-> NoKey, ts |-> 0, value |-> <<>>,
                err |-> "", calls |-> <<>>]
  /\ UNCHANGED <<clock, limiterHeld, sent, flushed, added, waited, txnVars, dataVars>>

Next == DoAddMVCCKey \/ DoFlush \/ DoReset \/ DoSetOnFlush

Spec == Init /\ [][Next]_vars

\* ------------------------------------- specification: reliable collaborators
\* A session in which no collaborator fails: every range-cache lookup, flush
\* delay, split, scatter, limiter request, AddSSTable request and clock sleep
\* succeeds.  AddSSTable still returns any of its per-range results.  The
\* caller resets the batcher only after a Flush that returned nil, so that no
\* buffered key is discarded.
Reliable(e) ==
  /\ e.lookupOK /\ ~e.delayCancelled /\ e.splitAboveOK /\ e.splitOK /\ e.scatterOK
  /\ e.beginOK /\ e.addOK /\ e.sleepOK

ReliableAddMVCCKey ==
  /\ ops < MaxReliableOps
  /\ \E key \in AllKeys, ts \in Timestamps, value \in Values :
       /\ KeyCompare(key, b.batchEndKey) >= 0
       /\ (key # b.batchEndKey => ts = 1 /\ value = <<1>>)
       /\ \E e \in {x \in AddEnvs(b, key, ts, value, clock) : Reliable(x)} :
            \E r \in {AddMVCCKey(b, key, ts, value, e, clock)} :
                /\ b' = r.b
                /\ limiterHeld' = limiterHeld + r.held
                /\ sent' = sent \o r.sent
                /\ flushed' = flushed \o r.flushed
                /\ added' = IF r.err = "" /\ r.b.sstFile # b.sstFile
                              THEN Append(added, r.b.sstFile[Len(r.b.sstFile)])
                              ELSE added
                /\ lastOp' = [op |-> "AddMVCCKey", key |-> key, ts |-> ts,
                              value |-> value, err |-> r.err, calls |-> r.calls]
  /\ ops' = ops + 1
  /\ UNCHANGED <<clock, waited, txnVars, dataVars>>

ReliableFlush ==
  /\ ops < MaxReliableOps
  /\ \E e \in {x \in ManualEnvs(b, clock) : Reliable(x)} :
       \E r \in {Flush(b, e, clock)} :
           /\ b' = r.b
           /\ clock' = r.clock
           /\ waited' = IF r.err = "" THEN Len(sent \o r.sent) ELSE waited
           /\ limiterHeld' = limiterHeld + r.held
           /\ sent' = sent \o r.sent
           /\ flushed' = flushed \o r.flushed
           /\ lastOp' = [op |-> "Flush", key |-> NoKey, ts |-> 0, value |-> <<>>,
                         err |-> r.err, calls |-> r.calls]
  /\ ops' = ops + 1
  /\ UNCHANGED <<added, txnVars, dataVars>>

ReliableReset ==
  /\ ops < MaxReliableOps
  /\ lastOp.op = "Flush" /\ lastOp.err = ""
  /\ ops' = ops + 1
  /\ b' = Reset(b)
  /\ lastOp' = [op |-> "Reset", key |-> NoKey, ts |-> 0, value |-> <<>>,
                err |-> "", calls |-> <<>>]
  /\ UNCHANGED <<clock, limiterHeld, sent, flushed, added, waited, txnVars, dataVars>>

ReliableNext == ReliableAddMVCCKey \/ ReliableFlush \/ ReliableReset

ReliableSpec == Init /\ [][ReliableNext]_vars

\* ------------------------------------------- specification: Transaction
\* The zero Transaction, or one MakeTransaction made; the batcher is idle.
TxnInit ==
  /\ b = NewBatcher(FALSE, FALSE, FALSE, FALSE, FALSE, FALSE, FALSE)
  /\ clock = 1
  /\ limiterHeld = 0
  /\ sent = <<>>
  /\ flushed = <<>>
  /\ added = <<>>
  /\ lastOp = [op |-> "Make", key |-> NoKey, ts |-> 0, value |-> <<>>,
               err |-> "", calls |-> <<>>]
  /\ ops = 0
  /\ waited = 0
  /\ txn \in {ZeroTransaction} \cup
       {MakeTransaction(1, <<>>, 0, priority, <<1, 0>>, 1, 0, FALSE) :
          priority \in MadePriorities}
  /\ lastTxnOp = NoTxnOp
  /\ txnOps = 0
  /\ leaseCall = NoLeaseCall
  /\ spanCall = NoSpanCall
  /\ roachValue = ZeroValue
  /\ lastValOp = NoValOp
  /\ valOps = 0

DoRestart ==
  /\ txnOps < MaxTxnOps
  /\ txn.Epoch < MaxEpoch
  /\ \E priority \in MadePriorities,
        upgradePriority \in {MinTxnPriority, MaxPriority, MaxTxnPriority},
        timestamp \in {EmptyTimestamp, <<1, MaxLogical>>, <<MaxWall, 0>>} :
       /\ txn' = Restart(txn, priority, upgradePriority, timestamp)
       /\ lastTxnOp' = [NoTxnOp EXCEPT !.op = "Restart",
                                       !.priority = priority,
                                       !.upgradePriority = upgradePriority,
                                       !.timestamp = timestamp]
  /\ txnOps' = txnOps + 1
  /\ UNCHANGED <<batcherVars, dataVars>>

DoBumpReadTimestamp ==
  /\ txnOps < MaxTxnOps
  /\ \E timestamp \in TxnTimestamps \cup {EmptyTimestamp} :
       /\ txn' = BumpReadTimestamp(txn, timestamp)
       /\ lastTxnOp' = [NoTxnOp EXCEPT !.op = "BumpReadTimestamp",
                                       !.timestamp = timestamp]
  /\ txnOps' = txnOps + 1
  /\ UNCHANGED <<batcherVars, dataVars>>

DoUpgradePriority ==
  /\ txnOps < MaxTxnOps
  /\ \E minPriority \in TxnPriorities :
       /\ txn' = UpgradePriority(txn, minPriority)
       /\ lastTxnOp' = [NoTxnOp EXCEPT !.op = "UpgradePriority",
                                       !.upgradePriority = minPriority]
  /\ txnOps' = txnOps + 1
  /\ UNCHANGED <<batcherVars, dataVars>>

\* Update with a record of the same transaction; a receiver without an ID
\* takes any initialized record
DoUpdate ==
  /\ txnOps < MaxTxnOps
  /\ \E o \in Others :
       /\ AssertInitialized(o)
       /\ txn.ID = 0 \/ txn.ID = o.ID
       /\ txn' = Update(txn, o)
       /\ lastTxnOp' = [NoTxnOp EXCEPT !.op = "Update", !.o = o]
  /\ txnOps' = txnOps + 1
  /\ UNCHANGED <<batcherVars, dataVars>>

DoUpdateObservedTimestamp ==
  /\ txnOps < MaxTxnOps
  /\ \E nodeID \in 1..MaxNode,
        timestamp \in {<<1, 0>>, <<1, MaxLogical>>, <<MaxWall, 0>>} :
       /\ txn' = UpdateObservedTimestamp(txn, nodeID, timestamp)
       /\ lastTxnOp' = [NoTxnOp EXCEPT !.op = "UpdateObservedTimestamp",
                                       !.nodeID = nodeID, !.timestamp = timestamp]
  /\ txnOps' = txnOps + 1
  /\ UNCHANGED <<batcherVars, dataVars>>

TxnNext ==
  \/ DoRestart
  \/ DoBumpReadTimestamp
  \/ DoUpgradePriority
  \/ DoUpdate
  \/ DoUpdateObservedTimestamp

TxnSpec == TxnInit /\ [][TxnNext]_vars

\* ------------------------------------------------- specification: Lease
\* Two leases and the flag; newL is another lease, or one that shares l's
\* expiration pointer.  The batcher and the Transaction are idle.
IdleInit ==
  /\ b = NewBatcher(FALSE, FALSE, FALSE, FALSE, FALSE, FALSE, FALSE)
  /\ clock = 1
  /\ limiterHeld = 0
  /\ sent = <<>>
  /\ flushed = <<>>
  /\ added = <<>>
  /\ lastOp = [op |-> "Make", key |-> NoKey, ts |-> 0, value |-> <<>>,
               err |-> "", calls |-> <<>>]
  /\ ops = 0
  /\ waited = 0
  /\ txn = ZeroTransaction
  /\ lastTxnOp = NoTxnOp
  /\ txnOps = 0

LeaseInit ==
  /\ IdleInit
  /\ \E l \in Leases(1), expToEpochEquiv \in BOOLEAN :
       \E newL \in Leases(2) \cup {x \in Leases(1) : x.Expiration = l.Expiration /\ x.DeprecatedStartStasis = l.DeprecatedStartStasis} :
         leaseCall = [NoLeaseCall EXCEPT !.l = l, !.newL = newL, !.expToEpochEquiv = expToEpochEquiv]
  /\ spanCall = NoSpanCall
  /\ roachValue = ZeroValue
  /\ lastValOp = NoValOp
  /\ valOps = 0

DoEquivalent ==
  /\ ~leaseCall.called
  /\ leaseCall' = [leaseCall EXCEPT !.called = TRUE, !.equivalent = Equivalent(leaseCall.l, leaseCall.newL, leaseCall.expToEpochEquiv)]
  /\ UNCHANGED <<batcherVars, txnVars, spanCall, valueVars>>

LeaseNext == DoEquivalent

LeaseSpec == LeaseInit /\ [][LeaseNext]_vars

\* -------------------------------------------------- specification: Span
\* Two spans; one of the methods is called on them.
SpanInit ==
  /\ IdleInit
  /\ leaseCall = NoLeaseCall
  /\ \E s \in Spans, o \in Spans : spanCall = [NoSpanCall EXCEPT !.s = s, !.o = o]
  /\ roachValue = ZeroValue
  /\ lastValOp = NoValOp
  /\ valOps = 0

DoOverlaps ==
  /\ spanCall.op = ""
  /\ spanCall' = [spanCall EXCEPT !.op = "Overlaps", !.overlaps = Overlaps(spanCall.s, spanCall.o)]
  /\ UNCHANGED <<batcherVars, txnVars, leaseCall, valueVars>>

DoIntersect ==
  /\ spanCall.op = ""
  /\ spanCall' = [spanCall EXCEPT !.op = "Intersect", !.intersect = Intersect(spanCall.s, spanCall.o)]
  /\ UNCHANGED <<batcherVars, txnVars, leaseCall, valueVars>>

DoContains ==
  /\ spanCall.op = ""
  /\ spanCall' = [spanCall EXCEPT !.op = "Contains", !.contains = Contains(spanCall.s, spanCall.o)]
  /\ UNCHANGED <<batcherVars, txnVars, leaseCall, valueVars>>

SpanNext == DoOverlaps \/ DoIntersect \/ DoContains

SpanSpec == SpanInit /\ [][SpanNext]_vars

\* ------------------------------------------------- specification: Value
\* The zero Value; setters, checksum methods and getters are called on it.
ValueInit ==
  /\ IdleInit
  /\ leaseCall = NoLeaseCall
  /\ spanCall = NoSpanCall
  /\ roachValue = ZeroValue
  /\ lastValOp = NoValOp
  /\ valOps = 0

\* a setter was called for the logical type set and handed back r
SetStep(op, set, r) ==
  /\ valOps < MaxValOps
  /\ valOps' = valOps + 1
  /\ roachValue' = r.v
  /\ lastValOp' = [NoValOp EXCEPT !.op = op, !.set = IF r.err = "" THEN set ELSE "", !.err = r.err]
  /\ UNCHANGED <<batcherVars, txnVars, leaseCall, spanCall>>

\* a getter was called for the logical type get and handed back r
GetStep(op, get, r) ==
  /\ valOps < MaxValOps
  /\ valOps' = valOps + 1
  /\ lastValOp' = [NoValOp EXCEPT !.op = op, !.set = lastValOp.set, !.get = get, !.err = r.err, !.decoded = r.decoded]
  /\ UNCHANGED <<batcherVars, txnVars, leaseCall, spanCall, roachValue>>

DoSetBytes == \E bytes \in ByteStrings : SetStep("SetBytes", "Bytes", SetBytes(roachValue, bytes))

DoSetString == \E s \in ByteStrings : SetStep("SetString", "Bytes", SetString(roachValue, s))

DoSetFloat == \E f \in Floats : SetStep("SetFloat", "Float", SetFloat(roachValue, f))

DoSetGeo == \E so \in SpatialObjects : SetStep("SetGeo", "Geo", SetGeo(roachValue, so))

DoSetBox2D == \E box \in Boxes : SetStep("SetBox2D", "Box2D", SetBox2D(roachValue, box))

DoSetBool == \E flag \in BOOLEAN : SetStep("SetBool", "Bool", SetBool(roachValue, flag))

DoSetInt == \E i \in Ints : SetStep("SetInt", "Int", SetInt(roachValue, i))

DoSetProto == \E msg \in Messages : SetStep("SetProto", IF msg.timeseries THEN "Timeseries" ELSE "Proto", SetProto(roachValue, msg))

DoSetTime == \E t \in Encoded : SetStep("SetTime", "Time", SetTime(roachValue, t))

DoSetTimeTZ == \E t \in Encoded : SetStep("SetTimeTZ", "TimeTZ", SetTimeTZ(roachValue, t))

DoSetDuration == \E t \in Encoded \cup {MaxEncoded + 1} : SetStep("SetDuration", "Duration", SetDuration(roachValue, t))

DoSetBitArray == \E t \in Encoded : SetStep("SetBitArray", "BitArray", SetBitArray(roachValue, t))

DoSetDecimal == \E dec \in Encoded : SetStep("SetDecimal", "Decimal", SetDecimal(roachValue, dec))

DoSetTuple == \E data \in ByteStrings : SetStep("SetTuple", "Tuple", SetTuple(roachValue, data))

DoInitChecksum ==
  /\ valOps < MaxValOps
  /\ valOps' = valOps + 1
  /\ \E key \in ChecksumKeys :
       \E r \in {InitChecksum(roachValue, key)} :
         /\ roachValue' = r.v
         /\ lastValOp' = [NoValOp EXCEPT !.op = "InitChecksum", !.set = lastValOp.set, !.key = key, !.panic = r.panic]
  /\ UNCHANGED <<batcherVars, txnVars, leaseCall, spanCall>>

DoClearChecksum ==
  /\ valOps < MaxValOps
  /\ valOps' = valOps + 1
  /\ roachValue' = ClearChecksum(roachValue)
  /\ lastValOp' = [NoValOp EXCEPT !.op = "ClearChecksum", !.set = lastValOp.set]
  /\ UNCHANGED <<batcherVars, txnVars, leaseCall, spanCall>>

DoVerify ==
  /\ valOps < MaxValOps
  /\ valOps' = valOps + 1
  /\ \E key \in ChecksumKeys :
       lastValOp' = [NoValOp EXCEPT !.op = "Verify", !.set = lastValOp.set, !.key = key, !.err = Verify(roachValue, key),
                                    !.after = lastValOp.op, !.afterKey = lastValOp.key, !.afterPanic = lastValOp.panic]
  /\ UNCHANGED <<batcherVars, txnVars, leaseCall, spanCall, roachValue>>

DoGetBytes == GetStep("GetBytes", "Bytes", GetBytes(roachValue))

DoGetFloat == GetStep("GetFloat", "Float", GetFloat(roachValue))

DoGetGeo == GetStep("GetGeo", "Geo", GetGeo(roachValue))

DoGetBox2D == GetStep("GetBox2D", "Box2D", GetBox2D(roachValue))

DoGetBool == GetStep("GetBool", "Bool", GetBool(roachValue))

DoGetInt == GetStep("GetInt", "Int", GetInt(roachValue))

DoGetTime == GetStep("GetTime", "Time", GetTime(roachValue))

DoGetTimeTZ == GetStep("GetTimeTZ", "TimeTZ", GetTimeTZ(roachValue))

DoGetDuration == GetStep("GetDuration", "Duration", GetDuration(roachValue))

DoGetBitArray == GetStep("GetBitArray", "BitArray", GetBitArray(roachValue))

DoGetDecimal == GetStep("GetDecimal", "Decimal", GetDecimal(roachValue))

DoGetTimeseries == GetStep("GetTimeseries", "Timeseries", GetTimeseries(roachValue))

DoGetTuple == GetStep("GetTuple", "Tuple", GetTuple(roachValue))

DoGetProto == GetStep("GetProto", "Proto", GetProto(roachValue, FALSE))

ValueNext ==
  \/ DoSetBytes
  \/ DoSetString
  \/ DoSetFloat
  \/ DoSetGeo
  \/ DoSetBox2D
  \/ DoSetBool
  \/ DoSetInt
  \/ DoSetProto
  \/ DoSetTime
  \/ DoSetTimeTZ
  \/ DoSetDuration
  \/ DoSetBitArray
  \/ DoSetDecimal
  \/ DoSetTuple
  \/ DoInitChecksum
  \/ DoClearChecksum
  \/ DoVerify
  \/ DoGetBytes
  \/ DoGetFloat
  \/ DoGetGeo
  \/ DoGetBox2D
  \/ DoGetBool
  \/ DoGetInt
  \/ DoGetTime
  \/ DoGetTimeTZ
  \/ DoGetDuration
  \/ DoGetBitArray
  \/ DoGetDecimal
  \/ DoGetTimeseries
  \/ DoGetTuple
  \/ DoGetProto

ValueSpec == ValueInit /\ [][ValueNext]_vars

\* ------------------------------------------------------------- properties
\* a step that is one call of AddMVCCKey, of Flush, of Reset
AddStep == ops' = ops + 1 /\ lastOp'.op = "AddMVCCKey"

FlushStep == ops' = ops + 1 /\ lastOp'.op = "Flush"

ResetStep == ops' = ops + 1 /\ lastOp'.op = "Reset"

\* the buffer state of the batcher
BufferState(bb) ==
  <<bb.batchStartKey, bb.batchEndKey, bb.batchEndValue, bb.batchEndTimestamp,
    bb.batchRowCounter, bb.sstFile>>

\* the key of the call repeats the last accepted key
RepeatsKey == Len(b.batchEndKey) > 0 /\ lastOp'.key = b.batchEndKey

\* C1: in skip-duplicates mode an AddMVCCKey that repeats the last accepted
\* key returns nil when the value is the last accepted value and a
\* DuplicateKeyError when it is not, and either way the buffer state (start
\* key, end key/value/timestamp, row counter, file) is unchanged.
C1_SkipDuplicates ==
  [][AddStep /\ b.skipDuplicates /\ RepeatsKey =>
       /\ lastOp'.err = IF lastOp'.value = b.batchEndValue THEN "" ELSE "DuplicateKey"
       /\ BufferState(b') = BufferState(b)]_vars

\* a skip-duplicates batcher has just refused a repeat of its last key with
\* another value
C1_Witness ==
  /\ lastOp.op = "AddMVCCKey" /\ b.skipDuplicates
  /\ lastOp.key = b.batchEndKey /\ lastOp.value # b.batchEndValue
  /\ lastOp.err = "DuplicateKey"

\* the entry an accepted call writes
NewEntry == [key |-> lastOp'.key, ts |-> lastOp'.ts, value |-> lastOp'.value]

\* C2: in ingest-all mode AddMVCCKey returns a DuplicateKeyError exactly when
\* key and timestamp equal the last accepted entry's and the value differs; an
\* identical (key, timestamp, value) returns nil and changes nothing; a repeat
\* of the key at another timestamp is accepted, and when the call returns nil
\* it is the newest entry of the file.
C2_IngestAll ==
  [][AddStep /\ b.ingestAll =>
       /\ lastOp'.err = "DuplicateKey" <=>
             (RepeatsKey /\ lastOp'.ts = b.batchEndTimestamp
                /\ lastOp'.value # b.batchEndValue)
       /\ (RepeatsKey /\ lastOp'.ts = b.batchEndTimestamp
              /\ lastOp'.value = b.batchEndValue)
            => lastOp'.err = "" /\ b' = b /\ sent' = sent
       /\ (RepeatsKey /\ lastOp'.ts # b.batchEndTimestamp /\ lastOp'.err = "")
            => /\ b'.sstFile # <<>>
               /\ b'.sstFile[Len(b'.sstFile)] = NewEntry
               /\ Len(b'.sstFile) = Len(b.sstFile) + 1 \/ b'.sstFile = <<NewEntry>>
               /\ b'.batchEndTimestamp = lastOp'.ts]_vars

\* an ingest-all batcher holds the same key at two timestamps
C2_Witness ==
  /\ lastOp.op = "AddMVCCKey" /\ b.ingestAll /\ lastOp.err = ""
  /\ Len(b.sstFile) >= 2
  /\ b.sstFile[Len(b.sstFile)].key = b.sstFile[Len(b.sstFile) - 1].key
  /\ b.sstFile[Len(b.sstFile)].ts # b.sstFile[Len(b.sstFile) - 1].ts
  /\ b.sstFile[Len(b.sstFile)].ts = lastOp.ts

\* the AddSSTable requests issued by the step
NewRequests == SubSeq(sent', Len(sent) + 1, Len(sent'))

\* the call is not answered by the equal-key check
PastDupCheck ==
  ~RepeatsKey \/ (b.ingestAll /\ lastOp'.ts # b.batchEndTimestamp)

\* the key of the call is at or past the remembered flush boundary
AtBoundary == b.flushKey # NoKey /\ KeyCompare(b.flushKey, lastOp'.key) <= 0

\* request q carries exactly the keys buffered before the step
CoversBuffer(q) ==
  /\ q.start = b.batchStartKey
  /\ q.end = KeyNext(b.batchEndKey)
  /\ q.data = b.sstFile
  /\ \A i \in DOMAIN q.data :
       KeyCompare(q.start, q.data[i].key) <= 0 /\ KeyCompare(q.data[i].key, q.end) < 0

\* after the step the buffer holds the key of the call and nothing else
HoldsOnlyNewKey ==
  /\ Len(b'.sstFile) = 1
  /\ b'.sstFile[1].key = lastOp'.key /\ b'.sstFile[1].value = lastOp'.value
  /\ b'.batchStartKey = lastOp'.key /\ b'.batchEndKey = lastOp'.key
  /\ b'.batchEndValue = lastOp'.value

\* C3: when a flush boundary is remembered and the key given to AddMVCCKey is
\* at or past it, the call issues at most one AddSSTable request, with reason
\* range, for the file of the keys buffered so far over [first, last.Next()),
\* which does not contain the new key; when the call returns nil exactly one
\* such request succeeded and the buffer then holds the new key alone; when it
\* returns an error the new key is not added.
C3_RangeFlush ==
  [][AddStep /\ PastDupCheck /\ AtBoundary =>
       /\ Len(NewRequests) <= 1
       /\ \A i \in DOMAIN NewRequests :
            /\ NewRequests[i].reason = rangeFlush
            /\ CoversBuffer(NewRequests[i])
            /\ KeyCompare(NewRequests[i].end, lastOp'.key) <= 0
       /\ lastOp'.err = "" =>
            Len(NewRequests) = 1 /\ NewRequests[1].ok /\ HoldsOnlyNewKey
       /\ lastOp'.err # "" => BufferState(b') = BufferState(b)]_vars

\* a key at or past the boundary has just been accepted after a range flush
\* of two buffered keys
C3_Witness ==
  /\ lastOp.op = "AddMVCCKey" /\ lastOp.err = "" /\ sent # <<>>
  /\ sent[Len(sent)].reason = rangeFlush /\ sent[Len(sent)].ok
  /\ Len(sent[Len(sent)].data) = 2
  /\ KeyCompare(sent[Len(sent)].end, lastOp.key) <= 0
  /\ b.sstFile = <<[key |-> lastOp.key, ts |-> lastOp.ts, value |-> lastOp.value]>>
  /\ \E i \in DOMAIN lastOp.calls :
       lastOp.calls[i].call = "AddSSTable" /\ lastOp.calls[i].ok

\* the last buffered key and the key of the call are keys of one row
SameRowAsLast ==
  /\ EnsureSafeSplitKey(b.batchEndKey).ok /\ EnsureSafeSplitKey(lastOp'.key).ok
  /\ EnsureSafeSplitKey(b.batchEndKey).key = EnsureSafeSplitKey(lastOp'.key).key

\* C4: with the file at or over the size threshold and no range flush due,
\* an AddMVCCKey of a key of the last buffered key's row issues no request and
\* (returning nil) appends the key to the file; an AddMVCCKey of a key of
\* another row issues at most one request, with reason size, for all keys
\* buffered so far, and when it returns nil exactly one such request succeeded
\* and the buffer then holds the new key alone.
C4_SizeFlush ==
  [][AddStep /\ PastDupCheck /\ ~AtBoundary
        /\ b.sstWriter.DataSize >= IngestFileSize =>
       IF SameRowAsLast
         THEN /\ NewRequests = <<>>
              /\ lastOp'.err = "" =>
                   /\ Len(b'.sstFile) = Len(b.sstFile) + 1
                   /\ SubSeq(b'.sstFile, 1, Len(b.sstFile)) = b.sstFile
                   /\ b'.sstFile[Len(b'.sstFile)].key = lastOp'.key
         ELSE /\ Len(NewRequests) <= 1
              /\ \A i \in DOMAIN NewRequests :
                   NewRequests[i].reason = sizeFlush /\ CoversBuffer(NewRequests[i])
              /\ lastOp'.err = "" =>
                   Len(NewRequests) = 1 /\ NewRequests[1].ok /\ HoldsOnlyNewKey
              /\ lastOp'.err # "" => BufferState(b') = BufferState(b)]_vars

\* the first key of another row has just been accepted after one size flush
\* of a file that had grown past the threshold within a row
C4_Witness ==
  /\ lastOp.op = "AddMVCCKey" /\ lastOp.err = "" /\ Len(sent) = 1
  /\ sent[1].reason = sizeFlush /\ sent[1].ok
  /\ Len(sent[1].data) = 2
  /\ FileDataSize(SubSeq(sent[1].data, 1, 1)) >= IngestFileSize
  /\ b.sstFile = <<[key |-> lastOp.key, ts |-> lastOp.ts, value |-> lastOp.value]>>

\* the step ingested a file
Ingested == NewRequests # <<>> /\ NewRequests[Len(NewRequests)].ok

\* the buffer-local fields are as Reset leaves them
Cleared(bb) ==
  /\ bb.batchStartKey = NoKey /\ bb.batchEndKey = NoKey
  /\ bb.batchEndValue = <<>> /\ bb.batchEndTimestamp = 0
  /\ bb.sstFile = <<>> /\ bb.sstWriter = [DataSize |-> 0, open |-> TRUE]

\* the cumulative statistics kept what they had and gained the step's flush
TotalsPreserved ==
  /\ b'.totalBulkOpSummary =
       AddSummary(b.totalBulkOpSummary, NewRequests[Len(NewRequests)].summary)
  /\ b'.totalStats.Batches > b.totalStats.Batches
  /\ b'.totalStats.LogicalDataSize >= b.totalStats.LogicalDataSize

\* C5 as stated: after every flush, by size, by range boundary or by a manual
\* Flush(), the batcher is reset (start key, end key/value/timestamp and file
\* cleared) and the cumulative statistics are preserved.  In AddMVCCKey the
\* cleared buffer then takes the new key.
C5_ResetAfterEveryFlush ==
  [][(AddStep \/ FlushStep) /\ Ingested =>
       /\ IF lastOp'.op = "Flush" THEN Cleared(b') ELSE HoldsOnlyNewKey
       /\ TotalsPreserved]_vars

\* C5: after every size or range-boundary flush that succeeds the batcher is
\* reset before the new key is taken, so the buffer then holds the new key
\* alone with no flush boundary remembered; a manual Flush() that succeeds
\* leaves the start key, end key/value/timestamp and the finished file as they
\* were, until Reset clears them; the cumulative statistics are preserved by
\* flushes and by Reset.
C5_ResetAfterFlush ==
  [][/\ AddStep /\ Ingested =>
          /\ lastOp'.err = "" /\ HoldsOnlyNewKey /\ TotalsPreserved
          /\ b'.sstWriter.open /\ b'.flushKey = NoKey /\ ~b'.flushKeyChecked
     /\ FlushStep /\ Ingested =>
          /\ BufferState(b') = BufferState(b) /\ ~b'.sstWriter.open
          /\ b'.sstWriter.DataSize = b.sstWriter.DataSize
          /\ TotalsPreserved
     /\ ResetStep =>
          /\ Cleared(b')
          /\ b'.totalBulkOpSummary = b.totalBulkOpSummary
          /\ b'.totalStats = b.totalStats]_vars

\* a manual Flush() has ingested the buffered keys and the buffer still
\* holds them
C5_Witness ==
  /\ lastOp.op = "Flush" /\ lastOp.err = "" /\ sent # <<>>
  /\ sent[Len(sent)].reason = manualFlush /\ sent[Len(sent)].ok
  /\ b.sstFile # <<>> /\ b.sstFile = sent[Len(sent)].data
  /\ b.batchStartKey = sent[Len(sent)].start
  /\ b.totalBulkOpSummary.DataSize > 0

RECURSIVE ConcatData(_)
ConcatData(files) ==
  IF files = <<>> THEN <<>> ELSE files[1].data \o ConcatData(Tail(files))

\* s can be had from t by dropping entries
RECURSIVE IsSubseq(_, _)
IsSubseq(s, t) ==
  IF s = <<>> THEN TRUE
  ELSE IF t = <<>> THEN FALSE
  ELSE IF s[1] = t[1] THEN IsSubseq(Tail(s), Tail(t))
  ELSE IsSubseq(s, Tail(t))

Summaries(files) == [i \in DOMAIN files |-> files[i].summary]

\* C6: the files submitted to AddSSTable, taken in submission order, hold
\* entries in the order in which they were added, each added entry at most
\* once; and the summaries the callback was invoked with are, in order and
\* once each, those of the files ingested successfully while a callback was
\* registered.
C6_FlushOrder ==
  /\ IsSubseq(ConcatData(sent), added)
  /\ flushed = Summaries(SelectSeq(sent, LAMBDA q : q.ok /\ q.onFlush))

\* two different files were ingested and the callback has run for both
C6_Witness ==
  /\ Len(sent) = 2 /\ sent[1].ok /\ sent[2].ok
  /\ sent[1].data # sent[2].data
  /\ KeyCompare(sent[1].data[1].key, sent[2].data[1].key) < 0
  /\ flushed = <<sent[1].summary, sent[2].summary>>

\* call i of the last operation is a failed lookup, split or scatter
FailedOptimisation(i) ==
  /\ lastOp.calls[i].call \in {"Lookup", "AdminSplit", "AdminScatter"}
  /\ ~lastOp.calls[i].ok

\* call j of the last operation failed and its error is what was returned
ReturnedErrorOf(j) ==
  /\ ~lastOp.calls[j].ok
  /\ lastOp.calls[j].call \in
       {"Delay", "Finish", "Begin", "AddSSTable", "SleepUntil", "Put"}
  /\ lastOp.err = (IF lastOp.calls[j].call = "Delay" THEN "Canceled"
                   ELSE lastOp.calls[j].call)

\* C7: an operation in which the range-cache lookup, a split or the scatter
\* failed returns nil or the error of a later step (the flush delay, the
\* Finish or Put of the file writer, the limiter, the ingest, the commit
\* wait) that failed itself.  After a failed
\* lookup an AddMVCCKey that returns nil has added its key; after a failed
\* split or scatter the flush goes on to acquire the limiter slot and, once
\* it has it, submits the file.
C7_OptimisationFailures ==
  \A i \in DOMAIN lastOp.calls : FailedOptimisation(i) =>
    /\ lastOp.err = "" \/ \E j \in DOMAIN lastOp.calls : j > i /\ ReturnedErrorOf(j)
    /\ IF lastOp.calls[i].call = "Lookup"
         THEN lastOp.err = "" =>
                b.sstFile # <<>> /\ b.sstFile[Len(b.sstFile)].key = lastOp.key
         ELSE \E j \in DOMAIN lastOp.calls :
                /\ j > i /\ lastOp.calls[j].call = "Begin"
                /\ lastOp.calls[j].ok =>
                     /\ j < Len(lastOp.calls)
                     /\ lastOp.calls[j + 1].call = "AddSSTable"
                     /\ sent # <<>>
                     /\ lastOp.calls[j + 1].ok = sent[Len(sent)].ok

\* a flush whose split failed has ingested its file
C7_Witness ==
  /\ lastOp.err = "" /\ sent # <<>> /\ sent[Len(sent)].ok
  /\ \E i, j \in DOMAIN lastOp.calls :
       /\ i < j
       /\ lastOp.calls[i].call = "AdminSplit" /\ ~lastOp.calls[i].ok
       /\ lastOp.calls[j].call = "AddSSTable" /\ lastOp.calls[j].ok

\* the positions of the last operation's calls named name
CallsOf(name) == {i \in DOMAIN lastOp.calls : lastOp.calls[i].call = name}

\* C8: in every operation each AddSSTable call comes directly after a
\* successful Begin of the limiter and is followed by the Release of the slot,
\* whether it succeeded or failed; a failed Begin is the operation's last
\* call, no AddSSTable is made and the operation returns the error; and no
\* slot is held once the operation has returned.
C8_LimiterSlot ==
  /\ limiterHeld = 0
  /\ \A i \in CallsOf("AddSSTable") :
       /\ i > 1 /\ lastOp.calls[i - 1].call = "Begin" /\ lastOp.calls[i - 1].ok
       /\ \E k \in CallsOf("Release") :
            k > i /\ \A m \in (i + 1)..(k - 1) : lastOp.calls[m].call = "onFlush"
  /\ \A j \in CallsOf("Begin") :
       IF lastOp.calls[j].ok
         THEN j < Len(lastOp.calls) /\ lastOp.calls[j + 1].call = "AddSSTable"
         ELSE /\ j = Len(lastOp.calls) /\ lastOp.err = "Begin"
              /\ CallsOf("AddSSTable") = {}
  /\ Cardinality(CallsOf("Release")) = Cardinality(CallsOf("AddSSTable"))

\* an ingest has failed and its slot went back
C8_Witness ==
  /\ lastOp.err = "AddSSTable" /\ limiterHeld = 0
  /\ \E i \in CallsOf("AddSSTable") :
       ~lastOp.calls[i].ok /\ i + 1 \in CallsOf("Release")

\* the ingest of the step failed
IngestFailed == NewRequests # <<>> /\ ~NewRequests[Len(NewRequests)].ok

\* C9: when AddSSTable fails in a flush, AddMVCCKey or Flush returns the
\* error, the buffer is as it was (the key of an AddMVCCKey is not added), the
\* callback is not invoked, and the cumulative summary, the cumulative
\* statistics and lastRange are unchanged.
C9_IngestFailure ==
  [][(AddStep \/ FlushStep) /\ IngestFailed =>
       /\ lastOp'.err = "AddSSTable"
       /\ BufferState(b') = BufferState(b)
       /\ flushed' = flushed
       /\ b'.totalBulkOpSummary = b.totalBulkOpSummary
       /\ b'.totalStats = b.totalStats
       /\ b'.lastRange = b.lastRange
       /\ b'.maxWriteTS = b.maxWriteTS]_vars

\* an AddMVCCKey has returned the error of its flush's failed ingest and its
\* key is not in the buffer
C9_Witness ==
  /\ lastOp.op = "AddMVCCKey" /\ lastOp.err = "AddSSTable"
  /\ sent # <<>> /\ ~sent[Len(sent)].ok
  /\ b.sstFile = sent[Len(sent)].data
  /\ \A i \in DOMAIN b.sstFile : b.sstFile[i].key # lastOp.key

RECURSIVE SumSummaries(_)
SumSummaries(ss) ==
  IF ss = <<>> THEN ZeroSummary ELSE AddSummary(ss[1], SumSummaries(Tail(ss)))

\* C10: GetSummary is the sum of the per-flush summaries of the files
\* ingested successfully, each summary counting the data of its file; with a
\* callback registered at every ingest those are the summaries the callback
\* was invoked with; and Reset leaves GetSummary as it was.
C10_Summary ==
  /\ [](/\ GetSummary(b) = SumSummaries(Summaries(SelectSeq(sent, LAMBDA q : q.ok)))
        /\ \A i \in DOMAIN sent : sent[i].ok =>
             /\ sent[i].summary.DataSize = FileDataSize(sent[i].data)
             /\ sent[i].summary.SSTDataSize = DataLen(sent[i].data)
        /\ (\A i \in DOMAIN sent : sent[i].onFlush) =>
             GetSummary(b) = SumSummaries(flushed))
  /\ [][ResetStep => GetSummary(b') = GetSummary(b)]_vars

\* two files were ingested, and the summary is the sum of the two summaries
\* given to the callback
C10_Witness ==
  /\ Len(sent) = 2 /\ sent[1].ok /\ sent[2].ok /\ Len(flushed) = 2
  /\ sent[1].summary.Rows + sent[2].summary.Rows > 0
  /\ GetSummary(b) = AddSummary(flushed[1], flushed[2])
  /\ GetSummary(b) # flushed[2]

\* the write timestamps returned by the ingests that completed after Flush
\* last returned nil, the ones of this step included
UnwaitedTimestamps ==
  UNION {sent'[i].writeTimestamps : i \in {j \in (waited + 1)..Len(sent') : sent'[j].ok}}

\* C11: when a batcher that writes at the batch timestamp returns nil from
\* Flush, the clock is at or past every write timestamp returned by an ingest
\* completed since Flush last returned nil (size and range flushes included)
\* and the accumulated maximum write timestamp is cleared; a batcher that
\* does not write at the batch timestamp never sleeps in Flush and leaves the
\* clock alone.
C11_CommitWait ==
  [][FlushStep =>
       /\ (b.writeAtBatchTS /\ lastOp'.err = "" =>
             /\ \A ts \in UnwaitedTimestamps : clock' >= ts
             /\ b'.maxWriteTS = 0)
       /\ (~b.writeAtBatchTS =>
             /\ \A i \in DOMAIN lastOp'.calls : lastOp'.calls[i].call # "SleepUntil"
             /\ clock' = clock)]_vars

\* Flush returned nil after sleeping until the write timestamp that a size or
\* range flush was given, above the clock.
C11_Witness ==
  /\ lastOp.op = "Flush" /\ lastOp.err = ""
  /\ b.writeAtBatchTS
  /\ \E i \in DOMAIN lastOp.calls :
       lastOp.calls[i].call = "SleepUntil" /\ lastOp.calls[i].ok
  /\ \E i \in DOMAIN sent :
       /\ sent[i].ok /\ sent[i].reason # manualFlush
       /\ MaxClock + 1 \in sent[i].writeTimestamps
  /\ clock = MaxClock + 1
  /\ b.maxWriteTS = 0

\* the step's operation found the context done during the flush delay
DelayCancelled ==
  \E i \in DOMAIN lastOp'.calls :
    lastOp'.calls[i].call = "Delay" /\ ~lastOp'.calls[i].ok

\* the commit wait of the step's Flush was cancelled in its sleep
SleepCancelled ==
  \E i \in DOMAIN lastOp'.calls :
    lastOp'.calls[i].call = "SleepUntil" /\ ~lastOp'.calls[i].ok

\* C12: when the context is cancelled during the flush delay, the operation
\* returns the cancellation error, the delay is its last call, it makes no
\* split, scatter, limiter or AddSSTable call, no request is issued, no
\* callback invoked, and the cumulative summary and the buffered file are as
\* before; when the sleep of the commit wait is cancelled, Flush returns that
\* error and keeps the write timestamp it waits for.
C12_Cancellation ==
  [][(AddStep \/ FlushStep) =>
       /\ (DelayCancelled =>
             /\ lastOp'.err = "Canceled"
             /\ lastOp'.calls[Len(lastOp'.calls)].call = "Delay"
             /\ \A i \in DOMAIN lastOp'.calls :
                  lastOp'.calls[i].call \notin
                    {"AdminSplit", "AdminScatter", "Begin", "AddSSTable", "onFlush"}
             /\ sent' = sent /\ flushed' = flushed
             /\ GetSummary(b') = GetSummary(b)
             /\ b'.totalStats = b.totalStats
             /\ b'.sstFile = b.sstFile)
       /\ (SleepCancelled =>
             /\ lastOp'.op = "Flush"
             /\ lastOp'.err = "SleepUntil"
             /\ b'.maxWriteTS # 0)]_vars

\* A flush by size or range in AddMVCCKey, after an earlier flush that
\* ingested, was cancelled in its delay.
C12_Witness ==
  /\ lastOp.op = "AddMVCCKey" /\ lastOp.err = "Canceled"
  /\ \E i \in DOMAIN lastOp.calls :
       lastOp.calls[i].call = "Delay" /\ ~lastOp.calls[i].ok
  /\ b.totalBulkOpSummary # ZeroSummary

\* A manual Flush ingested its file and was cancelled in the sleep of its
\* commit wait.
C12_SleepWitness ==
  /\ lastOp.op = "Flush" /\ lastOp.err = "SleepUntil"
  /\ \E i \in DOMAIN lastOp.calls : lastOp.calls[i].call = "AddSSTable"

\* C13: Reset returns no error and submits nothing: the buffered file is
\* dropped without a request or a callback; afterwards the start key, the end
\* key, value and timestamp, the flush boundary and its checked flag, the
\* MVCC statistics and the row counter's summary of the batch are cleared,
\* and so is the batch timestamp of a batcher that writes at it; the
\* cumulative summary and the cumulative performance statistics are as
\* before, as are the configuration and the pending write timestamp.
C13_Reset ==
  [][ResetStep =>
       /\ lastOp'.err = "" /\ lastOp'.calls = <<>>
       /\ sent' = sent /\ flushed' = flushed /\ limiterHeld' = limiterHeld
       /\ Cleared(b')
       /\ b'.flushKey = NoKey /\ ~b'.flushKeyChecked
       /\ b'.ms = ZeroMS
       /\ b'.batchRowCounter.BulkOpSummary = ZeroSummary
       /\ b'.batchTS = (IF b.writeAtBatchTS THEN 0 ELSE b.batchTS)
       /\ GetSummary(b') = GetSummary(b)
       /\ b'.totalStats = b.totalStats
       /\ b'.currentStats = b.currentStats
       /\ b'.maxWriteTS = b.maxWriteTS
       /\ b'.lastRange = b.lastRange]_vars

\* Reset dropped a buffered entry that no request carries, on a batcher that
\* had ingested a file before.
C13_Witness ==
  /\ lastOp.op = "Reset"
  /\ Len(added) > Len(ConcatData(sent))
  /\ b.totalBulkOpSummary # ZeroSummary
  /\ Cleared(b)

\* ------------------------------------------------- properties: Transaction
\* a step that is one call of Restart, of Update, of UpgradePriority, of
\* BumpReadTimestamp
RestartStep == txnOps' = txnOps + 1 /\ lastTxnOp'.op = "Restart"

UpdateStep == txnOps' = txnOps + 1 /\ lastTxnOp'.op = "Update"

UpgradePriorityStep == txnOps' = txnOps + 1 /\ lastTxnOp'.op = "UpgradePriority"

BumpReadTimestampStep == txnOps' = txnOps + 1 /\ lastTxnOp'.op = "BumpReadTimestamp"

\* m is the later of the timestamps x and y
IsMax(m, x, y) == m \in {x, y} /\ ~Less(m, x) /\ ~Less(m, y)

\* C14: every Restart raises the epoch by exactly one, lowers neither the
\* read nor the write timestamp, and leaves the write timestamp at the later
\* of the previous write timestamp and the supplied timestamp and the read
\* timestamp equal to the write timestamp.
C14_Restart ==
  [][RestartStep =>
       /\ txn'.Epoch = txn.Epoch + 1
       /\ ~Less(txn'.WriteTimestamp, txn.WriteTimestamp)
       /\ ~Less(txn'.ReadTimestamp, txn.ReadTimestamp)
       /\ IsMax(txn'.WriteTimestamp, txn.WriteTimestamp, lastTxnOp'.timestamp)
       /\ txn'.ReadTimestamp = txn'.WriteTimestamp]_vars

\* A transaction reached its second epoch by a Restart at a non-empty
\* timestamp below its write timestamp, and kept the write timestamp.
C14_Witness ==
  /\ lastTxnOp.op = "Restart"
  /\ txn.ID # 0
  /\ txn.Epoch = 2
  /\ Less(lastTxnOp.timestamp, txn.WriteTimestamp)
  /\ ~IsEmpty(lastTxnOp.timestamp)
  /\ txn.ReadTimestamp = <<MaxWall, 0>>

\* a step that is one call of one of the four methods
TxnStep == txnOps' = txnOps + 1

\* C15: once the status of a transaction is COMMITTED or ABORTED, no call of
\* Update, Restart, BumpReadTimestamp or UpgradePriority changes it.
C15_FinalizedIsTerminal ==
  [][TxnStep /\ IsFinalized(txn.Status) => txn'.Status = txn.Status]_vars

\* the step is an Update of a transaction that has an ID with a record of
\* the same ID
UpdateSameID ==
  UpdateStep /\ txn.ID # 0 /\ lastTxnOp'.o.ID = txn.ID

\* C16: an Update with a record of the same non-empty ID, at a lower, the
\* same or a higher epoch and of any status, leaves an ABORTED receiver
\* ABORTED: it never becomes COMMITTED.
C16_AbortedNeverCommitted ==
  [][UpdateSameID /\ txn.Status = "ABORTED" =>
       txn'.Status = "ABORTED" /\ txn'.Status # "COMMITTED"]_vars

\* An ABORTED transaction was updated with a COMMITTED record whose epoch is
\* not below its own, and is still ABORTED.
C16_Witness ==
  /\ lastTxnOp.op = "Update"
  /\ txnOps > 1
  /\ lastTxnOp.o.Status = "COMMITTED"
  /\ lastTxnOp.o.Epoch = 1 /\ txn.Epoch = 1
  /\ txn.Status = "ABORTED"

\* C17 as stated: a transaction whose priority is the minimum priority still
\* has the minimum priority after any UpgradePriority, any Restart and any
\* Update.
C17_MinPrioritySticky ==
  [][(UpgradePriorityStep \/ RestartStep \/ UpdateStep)
       /\ txn.Priority = MinTxnPriority
     => txn'.Priority = MinTxnPriority]_vars

\* C17: a transaction whose priority is the minimum priority still has the
\* minimum priority after any UpgradePriority and any Restart, and, when it
\* has an ID, after any Update with a record of the same ID; a receiver
\* without an ID takes the priority of the record it is updated with.
C17_MinPriorityStickyWithID ==
  [][/\ (UpgradePriorityStep \/ RestartStep \/ UpdateSameID)
          /\ txn.Priority = MinTxnPriority
        => txn'.Priority = MinTxnPriority
     /\ UpdateStep /\ txn.ID = 0 => txn'.Priority = lastTxnOp'.o.Priority]_vars

\* A transaction at the minimum priority was updated with a record at the
\* maximum priority and is still at the minimum.
C17_Witness ==
  /\ lastTxnOp.op = "Update"
  /\ lastTxnOp.o.Priority = MaxTxnPriority
  /\ txn.ID # 0
  /\ txn.Priority = MinTxnPriority

\* C18: UpgradePriority, Restart and Update never lower the priority of a
\* transaction that has an ID; and UpgradePriority with candidate c on a
\* transaction whose priority p is not the minimum priority leaves the
\* priority at the larger of p and c.
C18_PriorityRatchet ==
  [][/\ (UpgradePriorityStep \/ RestartStep \/ UpdateStep) /\ txn.ID # 0
        => txn'.Priority >= txn.Priority
     /\ UpgradePriorityStep /\ txn.Priority # MinTxnPriority
        => txn'.Priority = Max2(txn.Priority, lastTxnOp'.upgradePriority)]_vars

\* UpgradePriority was called with a candidate below the priority of a
\* transaction that is not at the minimum, and the priority was kept.
C18_Witness ==
  /\ lastTxnOp.op = "UpgradePriority"
  /\ txn.ID # 0
  /\ lastTxnOp.upgradePriority = 1
  /\ txn.Priority = MaxPriority

\* C19: after an Update with a record of the same non-empty ID, whatever the
\* epochs and the statuses of the two, the write timestamp, the read
\* timestamp, the last heartbeat and the global uncertainty limit are each
\* the later of the receiver's previous value and the record's value.
C19_TimestampsForward ==
  [][UpdateSameID =>
       /\ IsMax(txn'.WriteTimestamp, txn.WriteTimestamp,
                lastTxnOp'.o.WriteTimestamp)
       /\ IsMax(txn'.ReadTimestamp, txn.ReadTimestamp,
                lastTxnOp'.o.ReadTimestamp)
       /\ IsMax(txn'.LastHeartbeat, txn.LastHeartbeat,
                lastTxnOp'.o.LastHeartbeat)
       /\ IsMax(txn'.GlobalUncertaintyLimit, txn.GlobalUncertaintyLimit,
                lastTxnOp'.o.GlobalUncertaintyLimit)]_vars

\* A transaction at a later epoch was updated with a record at an earlier
\* epoch: it kept its later write timestamp and has the record's heartbeat,
\* which lies after the one it was made with.
C19_Witness ==
  /\ lastTxnOp.op = "Update"
  /\ txn.ID # 0
  /\ txn.Epoch > lastTxnOp.o.Epoch
  /\ Less(lastTxnOp.o.WriteTimestamp, txn.WriteTimestamp)
  /\ txn.LastHeartbeat = lastTxnOp.o.LastHeartbeat
  /\ Less(<<1, 0>>, txn.LastHeartbeat)

\* the epoch-scoped state of a transaction
EpochScopedOf(t) ==
  [Epoch |-> t.Epoch, Sequence |-> t.Sequence,
   ReadTimestampFixed |-> t.ReadTimestampFixed, LockSpans |-> t.LockSpans,
   InFlightWrites |-> t.InFlightWrites, IgnoredSeqNums |-> t.IgnoredSeqNums]

\* the step is an Update with a record of the same ID at a later epoch
UpdateHigherEpoch == UpdateSameID /\ txn.Epoch < lastTxnOp'.o.Epoch

\* C20 as stated: after an Update with a record of the same transaction at a
\* strictly higher epoch, the receiver has its own epoch, sequence number,
\* read-timestamp-fixed flag, lock spans, in-flight writes and ignored
\* sequence ranges, as before the call.
C20_OwnEpochScopedWins ==
  [][UpdateHigherEpoch => EpochScopedOf(txn') = EpochScopedOf(txn)]_vars

\* C20: after an Update with a record of the same transaction at a strictly
\* higher epoch, the receiver has the record's epoch, sequence number,
\* read-timestamp-fixed flag, lock spans, in-flight writes and ignored
\* sequence ranges, and the record's status unless its own status was
\* COMMITTED or ABORTED.
C20_HigherEpochReplaces ==
  [][UpdateHigherEpoch =>
       /\ EpochScopedOf(txn') = EpochScopedOf(lastTxnOp'.o)
       /\ txn'.Status = (IF IsFinalized(txn.Status) THEN txn.Status
                         ELSE lastTxnOp'.o.Status)]_vars

\* A transaction MakeTransaction made, at epoch 0 without locks and with its
\* own priority, was updated with a record at epoch 1 and has the record's
\* sequence number and lock spans.
C20_Witness ==
  /\ txnOps = 1
  /\ lastTxnOp.op = "Update"
  /\ txn.Priority # lastTxnOp.o.Priority
  /\ lastTxnOp.o.Epoch = 1 /\ txn.Epoch = 1
  /\ txn.Sequence = MaxSequence
  /\ txn.LockSpans # <<>> /\ txn.LockSpans = lastTxnOp.o.LockSpans

\* the step is an Update with a record of the same ID at an earlier epoch
UpdateLowerEpoch == UpdateSameID /\ txn.Epoch > lastTxnOp'.o.Epoch

UpdateSameEpoch == UpdateSameID /\ txn.Epoch = lastTxnOp'.o.Epoch

\* C22: after an Update with a record of the same transaction at the same
\* epoch, the sequence number is the larger of the two, each of the lock
\* spans, the in-flight writes and the ignored sequence ranges is the
\* record's list when that is not empty and the receiver's own otherwise,
\* and a STAGING or PREPARED receiver is not PENDING afterwards.
C22_SameEpoch ==
  [][UpdateSameEpoch =>
       /\ txn'.Epoch = txn.Epoch
       /\ txn'.Sequence = Max2(txn.Sequence, lastTxnOp'.o.Sequence)
       /\ txn'.LockSpans = (IF lastTxnOp'.o.LockSpans # <<>>
                              THEN lastTxnOp'.o.LockSpans ELSE txn.LockSpans)
       /\ txn'.InFlightWrites = (IF lastTxnOp'.o.InFlightWrites # <<>>
                                   THEN lastTxnOp'.o.InFlightWrites
                                   ELSE txn.InFlightWrites)
       /\ txn'.IgnoredSeqNums = (IF lastTxnOp'.o.IgnoredSeqNums # <<>>
                                   THEN lastTxnOp'.o.IgnoredSeqNums
                                   ELSE txn.IgnoredSeqNums)
       /\ (txn.Status \in {"STAGING", "PREPARED"} => txn'.Status # "PENDING")]_vars

\* A STAGING transaction with lock spans was updated with a PENDING record at
\* its epoch that has in-flight writes and no lock spans: it is STAGING, has
\* its lock spans and the record's in-flight writes.
C22_Witness ==
  /\ lastTxnOp.op = "Update"
  /\ txn.ID # 0
  /\ txn.Epoch = lastTxnOp.o.Epoch
  /\ lastTxnOp.o.Status = "PENDING" /\ txn.Status = "STAGING"
  /\ lastTxnOp.o.LockSpans = <<>> /\ txn.LockSpans # <<>>
  /\ lastTxnOp.o.InFlightWrites # <<>>
  /\ txn.InFlightWrites = lastTxnOp.o.InFlightWrites

UpdateObservedTimestampStep ==
  txnOps' = txnOps + 1 /\ lastTxnOp'.op = "UpdateObservedTimestamp"

\* the list is in strictly ascending order of node ID
SortedByNode(s) == \A i \in 1..(Len(s) - 1) : s[i].NodeID < s[i + 1].NodeID

\* the timestamps the list holds for a node
ObservedFor(s, nodeID) ==
  {s[i].Timestamp : i \in {j \in 1..Len(s) : s[j].NodeID = nodeID}}

\* the lowest of a set of timestamps, if any
Lowest(S) == {x \in S : \A y \in S : ~Less(y, x)}

EquivalentCalled == leaseCall.called

IsExpirationLease(l) == Type(l) = "LeaseExpiration"

IsEpochLease(l) == Type(l) = "LeaseEpoch"

IsLeaderLease(l) == Type(l) = "LeaseLeader"

\* the replica, without its type, and the start of the two leases are equal
SameReplicaAndStart(l, newL) ==
  /\ l.Replica.NodeID = newL.Replica.NodeID
  /\ l.Replica.StoreID = newL.Replica.StoreID
  /\ l.Replica.ReplicaID = newL.Replica.ReplicaID
  /\ l.Start = newL.Start

\* C24: for an expiration-based lease E and an epoch-based lease Q with the
\* same replica and start, Equivalent(E, Q, true) is true and
\* Equivalent(Q, E, true) is false: the promotion is equivalent, its reverse
\* is not.
C24_PromotionAsymmetric ==
  EquivalentCalled =>
    /\ (/\ IsExpirationLease(leaseCall.l)
        /\ IsEpochLease(leaseCall.newL)
        /\ SameReplicaAndStart(leaseCall.l, leaseCall.newL)
        /\ leaseCall.expToEpochEquiv)
       => leaseCall.equivalent
    /\ (/\ IsEpochLease(leaseCall.l)
        /\ IsExpirationLease(leaseCall.newL)
        /\ SameReplicaAndStart(leaseCall.l, leaseCall.newL)
        /\ leaseCall.expToEpochEquiv)
       => ~leaseCall.equivalent

\* Equivalent was called with the flag on an expiration-based lease and an
\* epoch-based lease of the same replica and start whose minimum expiration
\* is set, and whose ignored fields differ from the old lease's
C24_Witness ==
  /\ EquivalentCalled
  /\ IsExpirationLease(leaseCall.l)
  /\ IsEpochLease(leaseCall.newL)
  /\ SameReplicaAndStart(leaseCall.l, leaseCall.newL)
  /\ leaseCall.expToEpochEquiv
  /\ leaseCall.newL.MinExpiration # EmptyTimestamp
  /\ leaseCall.l.Sequence # leaseCall.newL.Sequence
  /\ leaseCall.equivalent

\* the reverse call of the same pair
C24_ReverseWitness ==
  /\ EquivalentCalled
  /\ IsEpochLease(leaseCall.l)
  /\ IsExpirationLease(leaseCall.newL)
  /\ SameReplicaAndStart(leaseCall.l, leaseCall.newL)
  /\ leaseCall.expToEpochEquiv
  /\ ~leaseCall.equivalent

\* C25: for every epoch-based or leader lease old and every expiration-based
\* lease new, Equivalent(old, new, flag) is false, whatever the flag.
C25_DemotionNeverEquivalent ==
  (/\ EquivalentCalled
   /\ IsEpochLease(leaseCall.l) \/ IsLeaderLease(leaseCall.l)
   /\ IsExpirationLease(leaseCall.newL))
  => ~leaseCall.equivalent

\* Equivalent was called without the flag on a leader lease and an
\* expiration-based lease of the same replica and start
C25_Witness ==
  /\ EquivalentCalled
  /\ IsLeaderLease(leaseCall.l)
  /\ IsExpirationLease(leaseCall.newL)
  /\ SameReplicaAndStart(leaseCall.l, leaseCall.newL)
  /\ ~leaseCall.expToEpochEquiv
  /\ ~leaseCall.equivalent

\* the same for an epoch-based lease, with the flag
C25_EpochWitness ==
  /\ EquivalentCalled
  /\ IsEpochLease(leaseCall.l)
  /\ IsExpirationLease(leaseCall.newL)
  /\ SameReplicaAndStart(leaseCall.l, leaseCall.newL)
  /\ leaseCall.l.MinExpiration = EmptyTimestamp
  /\ leaseCall.expToEpochEquiv
  /\ ~leaseCall.equivalent

\* an expiration-based lease is promoted to an epoch-based or a leader lease
Promotion ==
  /\ EquivalentCalled
  /\ IsExpirationLease(leaseCall.l)
  /\ IsEpochLease(leaseCall.newL) \/ IsLeaderLease(leaseCall.newL)

\* C26 as stated: for an expiration-based old lease and an epoch-based or
\* leader new lease, Equivalent returns true only when the new lease's
\* minimum expiration is not earlier than the old lease's expiration.
C26_PromotionNeedsLaterValidity ==
  (Promotion /\ leaseCall.equivalent)
  => LessEq(GetExpiration(leaseCall.l), leaseCall.newL.MinExpiration)

\* C26 as the code has it: a promotion is equivalent exactly when the replica
\* and the start of the two leases are equal and, for an epoch-based new
\* lease, the flag is set; the old expiration and the new minimum expiration
\* are not compared.
C26_PromotionIgnoresValidity ==
  Promotion =>
    (leaseCall.equivalent <=>
       /\ SameReplicaAndStart(leaseCall.l, leaseCall.newL)
       /\ IsEpochLease(leaseCall.newL) => leaseCall.expToEpochEquiv)

\* a promotion to a leader lease whose minimum expiration is earlier than the
\* old lease's expiration was found equivalent
C26_Witness ==
  /\ Promotion
  /\ IsLeaderLease(leaseCall.newL)
  /\ leaseCall.newL.MinExpiration # EmptyTimestamp
  /\ Less(leaseCall.newL.MinExpiration, GetExpiration(leaseCall.l))
  /\ leaseCall.equivalent

\* -------------------------------------------------------- properties: Span
\* C27: for all spans A and B, A.Intersect(B) is the empty span, which is not
\* valid, if and only if A.Overlaps(B) is false; when they overlap the result
\* is a valid span.
C27_IntersectIffOverlaps ==
  spanCall.op = "Intersect" =>
    /\ ~Valid(ZeroSpan)
    /\ spanCall.intersect = ZeroSpan <=> ~Overlaps(spanCall.s, spanCall.o)
    /\ Overlaps(spanCall.s, spanCall.o) => Valid(spanCall.intersect)

\* Intersect was called on two overlapping spans with end keys, neither of
\* which contains the other
C27_Witness ==
  /\ spanCall.op = "Intersect"
  /\ Overlaps(spanCall.s, spanCall.o)
  /\ Len(spanCall.s.EndKey) > 0 /\ Len(spanCall.o.EndKey) > 0
  /\ spanCall.intersect # spanCall.s
  /\ spanCall.intersect # spanCall.o

\* Intersect was called on two valid spans that do not overlap
C27_DisjointWitness ==
  /\ spanCall.op = "Intersect"
  /\ Valid(spanCall.s) /\ Valid(spanCall.o)
  /\ ~Overlaps(spanCall.s, spanCall.o)
  /\ spanCall.intersect = ZeroSpan

\* the span with no end key, and [Key, Key.Next()) in its place
IsSingleKey(s) == Len(s.EndKey) = 0

AsRange(s) == MakeSpan(s.Key, KeyNext(s.Key))

\* C28: for every key k and every span B, Overlaps and Contains give the same
\* result when the single-key span {Key: k, EndKey: empty} is replaced, as
\* receiver or as argument, by the span [k, k.Next()).
C28_SingleKeyAsRange ==
  /\ (spanCall.op = "Overlaps" /\ IsSingleKey(spanCall.s))
       => spanCall.overlaps = Overlaps(AsRange(spanCall.s), spanCall.o)
  /\ (spanCall.op = "Overlaps" /\ IsSingleKey(spanCall.o))
       => spanCall.overlaps = Overlaps(spanCall.s, AsRange(spanCall.o))
  /\ (spanCall.op = "Contains" /\ IsSingleKey(spanCall.s))
       => spanCall.contains = Contains(AsRange(spanCall.s), spanCall.o)
  /\ (spanCall.op = "Contains" /\ IsSingleKey(spanCall.o))
       => spanCall.contains = Contains(spanCall.s, AsRange(spanCall.o))

\* Contains was called on the single-key span of a non-empty key k and on
\* [k, k.Next()), and answered false, while [k, k.Next()) contains itself
C28_ContainsDiverges ==
  /\ spanCall.op = "Contains"
  /\ IsSingleKey(spanCall.s)
  /\ Len(spanCall.s.Key) > 0
  /\ spanCall.o = AsRange(spanCall.s)
  /\ ~spanCall.contains
  /\ Contains(AsRange(spanCall.s), spanCall.o)

\* what the two methods do keep: for a non-empty key k, Overlaps gives the
\* same result for the single-key span and for [k, k.Next()), on either side,
\* and so does Contains with the single-key span as its argument and a span
\* with an end key as its receiver
C28_OverlapsSingleKeyAsRange ==
  /\ (spanCall.op = "Overlaps" /\ IsSingleKey(spanCall.s) /\ Len(spanCall.s.Key) > 0)
       => spanCall.overlaps = Overlaps(AsRange(spanCall.s), spanCall.o)
  /\ (spanCall.op = "Overlaps" /\ IsSingleKey(spanCall.o) /\ Len(spanCall.o.Key) > 0)
       => spanCall.overlaps = Overlaps(spanCall.s, AsRange(spanCall.o))
  /\ (/\ spanCall.op = "Contains"
      /\ IsSingleKey(spanCall.o) /\ Len(spanCall.o.Key) > 0
      /\ ~IsSingleKey(spanCall.s))
       => spanCall.contains = Contains(spanCall.s, AsRange(spanCall.o))

\* ------------------------------------------------------- properties: Value
SetterOps == {"SetBytes", "SetString", "SetFloat", "SetGeo", "SetBox2D", "SetBool", "SetInt", "SetProto", "SetTime", "SetTimeTZ", "SetDuration", "SetBitArray", "SetDecimal", "SetTuple"}

\* the value was set through a setter that returned no error
WasSet == lastValOp.set # ""

\* C29: for every value set through any SetX and every key k, Verify(k)
\* succeeds immediately after InitChecksum(k); a value whose checksum field is
\* zero verifies against every key; and every SetX leaves the checksum field
\* zero.
C29_Checksum ==
  /\ []((lastValOp.op = "InitChecksum" /\ WasSet /\ ~lastValOp.panic)
          => Verify(roachValue, lastValOp.key) = "")
  /\ []((lastValOp.op = "Verify" /\ WasSet /\ lastValOp.after = "InitChecksum"
           /\ lastValOp.afterKey = lastValOp.key /\ ~lastValOp.afterPanic)
          => lastValOp.err = "")
  /\ [](checksum(roachValue) = Uint32(0) => \A k \in ChecksumKeys : Verify(roachValue, k) = "")
  /\ []((lastValOp.op \in SetterOps /\ lastValOp.err = "") => checksum(roachValue) = Uint32(0))
  /\ [][(lastValOp'.op \in SetterOps /\ lastValOp'.err = "") => checksum(roachValue') = Uint32(0)]_vars

\* a value was set, its checksum initialized for a key and Verify called with
\* the same key
C29_Witness ==
  /\ lastValOp.op = "Verify"
  /\ WasSet
  /\ lastValOp.after = "InitChecksum"
  /\ lastValOp.afterKey = lastValOp.key
  /\ ~lastValOp.afterPanic
  /\ checksum(roachValue) # Uint32(0)
  /\ lastValOp.err = ""

\* Verify called with another key than the checksum was initialized for fails
C29_OtherKeyWitness ==
  /\ lastValOp.op = "Verify"
  /\ lastValOp.after = "InitChecksum"
  /\ lastValOp.afterKey # lastValOp.key
  /\ lastValOp.err = "checksum"

\* a setter was called on a value whose array it keeps
C29_ReuseWitness ==
  /\ lastValOp.op \in SetterOps
  /\ lastValOp.err = ""
  /\ valOps >= 3
  /\ roachValue.len < Len(roachValue.backing)
  /\ lastValOp.set = "Bytes"

\* a getter was called for another logical type than the value was set with
MismatchedGet == lastValOp.get # "" /\ WasSet /\ lastValOp.set # lastValOp.get

\* the tag of each logical type
TagOf == [Bytes |-> ValueType_BYTES, Proto |-> ValueType_BYTES, Float |-> ValueType_FLOAT, Geo |-> ValueType_GEO, Box2D |-> ValueType_BOX2D, Bool |-> ValueType_INT, Int |-> ValueType_INT, Time |-> ValueType_TIME, TimeTZ |-> ValueType_TIMETZ, Duration |-> ValueType_DURATION, BitArray |-> ValueType_BITARRAY, Decimal |-> ValueType_DECIMAL, Tuple |-> ValueType_TUPLE, Timeseries |-> ValueType_TIMESERIES]

\* C30 as stated: for every pair of distinct supported logical types X and Y,
\* calling GetY on a value set with SetX returns a tag-mismatch error and
\* never a decoded value.
C30_MismatchedGetFails ==
  MismatchedGet => (lastValOp.err = "tag" /\ Len(lastValOp.decoded) = 0)

\* C30 as the code has it: GetY on a value set with SetX returns a
\* tag-mismatch error, and no decoded value, exactly when the tags of X and Y
\* differ; bool and int share the tag of INT, and bytes and a protobuf
\* message other than a time series share the tag of BYTES.
C30_MismatchedTagFails ==
  MismatchedGet =>
    /\ lastValOp.err = "tag" <=> TagOf[lastValOp.set] # TagOf[lastValOp.get]
    /\ lastValOp.err = "tag" => Len(lastValOp.decoded) = 0

\* GetInt was called on a value set with SetFloat
C30_Witness ==
  /\ lastValOp.set = "Float"
  /\ lastValOp.get = "Int"
  /\ lastValOp.err = "tag"

\* GetInt was called on a value set with SetBool and decoded it
C30_BoolAsIntWitness ==
  /\ lastValOp.set = "Bool"
  /\ lastValOp.get = "Int"
  /\ lastValOp.err = ""
  /\ lastValOp.decoded = <<1>>

\* ------------------------------------------- properties: flushes and ranges
\* file q holds no key at or past the end of the range of its first key
WithinOneRange(q) ==
  \A j \in DOMAIN q.data : KeyCompare(q.data[j].key, RangeEnd(q.data[1].key)) < 0

\* C31: with a range cache configured whose lookups always succeed and whose
\* boundaries do not change, no file submitted to AddSSTable holds a key that
\* is greater than or equal to the end key of the range containing the file's
\* first key.
C31_FilesWithinOneRange == b.rc => \A i \in DOMAIN sent : WithinOneRange(sent[i])

\* a batcher with a range cache has submitted a file whose first key was taken
\* right after a flush inside AddMVCCKey and whose last key lies in a later
\* range
C31_SpansTwoRanges ==
  /\ b.rc /\ Len(sent) = 2
  /\ WithinOneRange(sent[1]) /\ ~WithinOneRange(sent[2])
  /\ sent[1].reason # manualFlush
  /\ sent[2].start = sent[2].data[1].key

\* the keys of a sequence of entries
KeysOf(entries) == [i \in DOMAIN entries |-> entries[i].key]

\* the keys added so far are strictly increasing
Increasing(entries) ==
  \A i \in 1..(Len(entries) - 1) : KeyCompare(entries[i].key, entries[i + 1].key) < 0

\* the step is an AddMVCCKey whose key is greater than every key given before
AddsGreaterKey ==
  /\ AddStep /\ Increasing(added)
  /\ KeyCompare(b.batchEndKey, lastOp'.key) < 0
  /\ \A i \in DOMAIN added : KeyCompare(added[i].key, lastOp'.key) < 0

\* C32: for any interleaving of AddMVCCKey calls with strictly increasing keys
\* and Flush calls, with no collaborator failure, no call returns an error, and
\* when a Flush has returned the keys of the files submitted, read in
\* submission order, are the keys added, each in exactly one file.
C32_EveryKeyInOneFile ==
  /\ [][AddsGreaterKey \/ (FlushStep /\ Increasing(added)) => lastOp'.err = ""]_vars
  /\ [](lastOp.op = "Flush" /\ Increasing(added) =>
          KeysOf(ConcatData(sent)) = KeysOf(added))

\* C32 as the code has it: Flush finishes the SST writer and does not reset
\* the batcher.  While the writer is open (no file was flushed by Flush since
\* the last Reset) an AddMVCCKey with a greater key and a Flush return nil and
\* the key is written; once Flush has finished the writer, AddMVCCKey and
\* Flush return an error until Reset is called.  When a Flush has returned
\* nil, the keys of the submitted files, in submission order, are the keys
\* added, each in exactly one file.
C32_EveryKeyInOneFileUntilFlush ==
  /\ [][(AddsGreaterKey \/ (FlushStep /\ Increasing(added))) =>
          /\ b.sstWriter.open => lastOp'.err = ""
          /\ ~b.sstWriter.open => lastOp'.err \in {"Finish", "Put"}]_vars
  /\ [][AddsGreaterKey /\ b.sstWriter.open =>
          KeysOf(added') = Append(KeysOf(added), lastOp'.key)]_vars
  /\ [](lastOp.op = "Flush" /\ lastOp.err = "" /\ Increasing(added) =>
          /\ KeysOf(ConcatData(sent)) = KeysOf(added)
          /\ \A i \in DOMAIN sent : sent[i].ok)

\* three increasing keys went into two files, the first flushed by size inside
\* AddMVCCKey and the second by a Flush that returned nil
C32_Witness ==
  /\ lastOp.op = "Flush" /\ lastOp.err = "" /\ ops = 4
  /\ Len(added) = 3 /\ Increasing(added)
  /\ Len(sent) = 2 /\ sent[1].reason = sizeFlush /\ sent[2].reason = manualFlush
  /\ Len(sent[2].data) = 2

\* an AddMVCCKey right after a Flush that submitted a file has failed on the
\* finished writer
C32_AddAfterFlushWitness ==
  /\ lastOp.op = "AddMVCCKey" /\ lastOp.err # "" /\ ~b.sstWriter.open
  /\ Len(sent) = 1 /\ sent[1].ok /\ sent[1].reason = manualFlush
  /\ KeyCompare(lastOp.key, b.batchEndKey) > 0

\* after Flush and Reset a greater key has been accepted into a new file
C32_ResetWitness ==
  /\ lastOp.op = "AddMVCCKey" /\ lastOp.err = "" /\ b.sstWriter.open
  /\ Len(sent) = 1 /\ sent[1].reason = manualFlush
  /\ Len(added) = 2 /\ Increasing(added) /\ Len(b.sstFile) = 1

\* the keys added so far are in non-decreasing order
NonDecreasing(entries) ==
  \A i \in 1..(Len(entries) - 1) : KeyCompare(entries[i].key, entries[i + 1].key) <= 0

\* the greatest key of file q
LastKey(q) == q.data[Len(q.data)].key

\* C33: for keys added in non-decreasing order in any mode, the covering spans
\* of successively submitted files are disjoint and ascending: each file's
\* start key is greater than or equal to the exclusive end key, last
\* key.Next(), of the file submitted before it.
C33_FileSpansAscending ==
  NonDecreasing(added) =>
    \A i \in 1..(Len(sent) - 1) : KeyCompare(sent[i].end, sent[i + 1].start) <= 0

\* C33 as the code has it: for keys added in non-decreasing order each file's
\* start key is greater than or equal to the last key of the file submitted
\* before it, and greater than or equal to that file's exclusive end key
\* unless the two keys are equal, which happens when a flush falls between two
\* adds of the same key.
C33_FileSpansAscendingFromLastKey ==
  NonDecreasing(added) =>
    \A i \in 1..(Len(sent) - 1) :
      /\ sent[i].end = KeyNext(LastKey(sent[i]))
      /\ sent[i + 1].start = sent[i + 1].data[1].key
      /\ KeyCompare(LastKey(sent[i]), sent[i + 1].start) <= 0
      /\ LastKey(sent[i]) # sent[i + 1].start =>
           KeyCompare(sent[i].end, sent[i + 1].start) <= 0

\* two files were submitted for greater and greater keys, the first holding
\* two keys, and their spans are disjoint
C33_Witness ==
  /\ Len(sent) = 2 /\ NonDecreasing(added) /\ Len(sent[1].data) = 2
  /\ KeyCompare(sent[1].data[1].key, LastKey(sent[1])) < 0
  /\ KeyCompare(sent[1].end, sent[2].start) < 0

\* an ingest-all batcher was given a key at two timestamps with a size flush
\* in between: the second file starts below the end key of the first
C33_RepeatedKeyWitness ==
  /\ b.ingestAll /\ Len(sent) = 2 /\ NonDecreasing(added)
  /\ sent[1].reason = sizeFlush
  /\ sent[2].start = LastKey(sent[1])
  /\ sent[2].data[1].ts # sent[1].data[Len(sent[1].data)].ts
  /\ KeyCompare(sent[2].start, sent[1].end) < 0

\* ------------------------------------------------ properties: adaptive split
\* the collaborator calls the step made, in order
NewCalls == lastOp'.calls

\* the positions of the calls of one collaborator in the step
NewCallsOf(name) == {i \in DOMAIN NewCalls : NewCalls[i].call = name}

\* the step ran a flush up to the limiter request, past the split decision
FlushedFile == NewCallsOf("Begin") # {}

\* the split condition of the flush the step ran: the file's start key lies in
\* the remembered range span and the file's size is at or above the remembered
\* remaining capacity
SplitCondition ==
  /\ ContainsKey(b.lastRange.span, b.batchStartKey)
  /\ b.sstWriter.DataSize >= b.lastRange.remaining

\* no ingest result has been recorded yet
NoRangeRemembered ==
  b.lastRange = [span |-> ZeroSpan, remaining |-> 0, nextExistingKey |-> NoKey]

\* C34: during a flush administrative splits are requested if and only if the
\* file's start key lies inside the range span remembered from the previous
\* flush and the file's size is at or above that range's remembered remaining
\* capacity; the first flush of a session, before any ingest result was
\* recorded, requests no split and no scatter.
C34_SplitIffCondition ==
  [][FlushedFile =>
       /\ NewCallsOf("AdminSplit") # {} <=> SplitCondition
       /\ NoRangeRemembered =>
            NewCallsOf("AdminSplit") = {} /\ NewCallsOf("AdminScatter") = {}]_vars

\* C34 as the code has it: splits and scatters are requested only if the split
\* condition holds; when it holds, the split at the file's start key is
\* requested if and only if a safe split key can be derived from the start
\* key, and otherwise only the split above the file can be requested; the
\* first flush of a session requests no split and no scatter.
C34_SplitOnlyIfCondition ==
  [][FlushedFile =>
       /\ NewCallsOf("AdminSplit") \cup NewCallsOf("AdminScatter") # {} => SplitCondition
       /\ SplitCondition /\ EnsureSafeSplitKey(b.batchStartKey).ok =>
            \E i \in NewCallsOf("AdminSplit") :
               NewCalls[i].key = EnsureSafeSplitKey(b.batchStartKey).key
       /\ SplitCondition /\ ~EnsureSafeSplitKey(b.batchStartKey).ok =>
            /\ NewCallsOf("AdminScatter") = {}
            /\ \A i \in NewCallsOf("AdminSplit") :
                 /\ KeyCompare(KeyNext(b.batchEndKey), b.lastRange.nextExistingKey) < 0
                 /\ NewCalls[i].key = EnsureSafeSplitKey(b.lastRange.nextExistingKey).key
       /\ NoRangeRemembered =>
            NewCallsOf("AdminSplit") = {} /\ NewCallsOf("AdminScatter") = {}]_vars

\* the last call flushed a file that starts in the remembered range, which
\* had no room left, and the split at its start key was requested
C34_Witness ==
  /\ \E i \in DOMAIN lastOp.calls : lastOp.calls[i].call = "AdminSplit"
  /\ \E i \in DOMAIN lastOp.calls : lastOp.calls[i].call = "AddSSTable"
  /\ Len(sent) = 2 /\ sent[1].ok
  /\ ContainsKey(Lookup(sent[1].start), sent[2].start)

\* the last call flushed a file that starts in the remembered full range at a
\* key with no safe split key: no split was requested (the ingest returned no
\* result, so the range remembered is the one the flush decided on)
C34_NoSafeSplitKeyWitness ==
  /\ \A i \in DOMAIN lastOp.calls : lastOp.calls[i].call # "AdminSplit"
  /\ Len(sent) = 2 /\ sent[1].ok /\ sent[2].ok /\ sent[2].writeTimestamps = {}
  /\ ~EnsureSafeSplitKey(sent[2].start).ok
  /\ lastOp.op = "Flush" /\ lastOp.err = ""
  /\ ContainsKey(b.lastRange.span, sent[2].start) /\ b.lastRange.remaining = 0

\* the safe split keys of the file's start key and of the remembered next
\* existing key
AtKey == EnsureSafeSplitKey(b.batchStartKey)

AboveKey == EnsureSafeSplitKey(b.lastRange.nextExistingKey)

\* the split at the file's start key is the last split requested, when the
\* start key has a safe split key; the splits before it are splits above
AtSplits ==
  IF AtKey.ok
    THEN {i \in NewCallsOf("AdminSplit") : \A j \in NewCallsOf("AdminSplit") : j <= i}
    ELSE {}

AboveSplits == NewCallsOf("AdminSplit") \ AtSplits

\* every call at a position of S comes before every call at a position of T
Before(S, T) == \A i \in S, j \in T : i < j

\* at most one position
AtMostOne(S) == \A i \in S, j \in S : i = j

\* C35: within one flush the collaborator calls come in the order split above
\* the file, split at the file's start key, scatter, ingest.  The split above
\* is requested only when the remembered next existing key is non-empty and
\* strictly greater than the file's exclusive end key; the split at the start
\* key is requested whether or not the split above succeeded; the scatter is
\* requested only when the split at the start key succeeded and scatters are
\* not disabled.
C35_SplitOrder ==
  [][FlushedFile =>
       /\ AtMostOne(AboveSplits) /\ AtMostOne(AtSplits)
       /\ AtMostOne(NewCallsOf("AdminScatter")) /\ AtMostOne(NewCallsOf("AddSSTable"))
       /\ Before(AboveSplits, AtSplits)
       /\ Before(NewCallsOf("AdminSplit"), NewCallsOf("AdminScatter"))
       /\ Before(NewCallsOf("AdminSplit") \cup NewCallsOf("AdminScatter"),
                 NewCallsOf("AddSSTable"))
       /\ \A i \in AboveSplits :
            /\ Len(b.lastRange.nextExistingKey) > 0
            /\ KeyCompare(KeyNext(b.batchEndKey), b.lastRange.nextExistingKey) < 0
            /\ NewCalls[i].key = AboveKey.key
            /\ AtKey.ok => \E j \in AtSplits : i < j
       /\ \A i \in AtSplits : NewCalls[i].key = AtKey.key
       /\ \A j \in NewCallsOf("AdminScatter") :
            /\ ~b.disableScatters
            /\ NewCalls[j].key = AtKey.key
            /\ \E i \in AtSplits : NewCalls[i].ok]_vars

\* the last call flushed a file with a failed split above it, then a split at
\* its start key, a scatter and the ingest
C35_Witness ==
  /\ Len(lastOp.calls) >= 5
  /\ lastOp.calls[1].call = "AdminSplit" /\ ~lastOp.calls[1].ok
  /\ lastOp.calls[2].call = "AdminSplit" /\ lastOp.calls[2].ok
  /\ KeyCompare(lastOp.calls[2].key, lastOp.calls[1].key) < 0
  /\ lastOp.calls[3].call = "AdminScatter"
  /\ lastOp.calls[4].call = "Begin"
  /\ lastOp.calls[5].call = "AddSSTable" /\ lastOp.calls[5].ok

\* the last call flushed a file after a split at its start key that failed:
\* no scatter was requested
C35_NoScatterWitness ==
  /\ Len(lastOp.calls) >= 3
  /\ lastOp.calls[1].call = "AdminSplit" /\ ~lastOp.calls[1].ok
  /\ lastOp.calls[2].call = "Begin"
  /\ lastOp.calls[3].call = "AddSSTable"
  /\ lastOp.op = "Flush" /\ ~b.disableScatters
  /\ EnsureSafeSplitKey(b.batchStartKey).ok
  /\ lastOp.calls[1].key = EnsureSafeSplitKey(b.batchStartKey).key

\* ------------------------------------------------- properties: lastRange
\* the per-range results of the successful ingests so far, in order
RECURSIVE ResultsOf(_)
ResultsOf(files) ==
  IF files = <<>> THEN <<>>
  ELSE (IF files[1].ok THEN files[1].results ELSE <<>>) \o ResultsOf(Tail(files))

\* the results that carry a valid range span
ValidResults(results) == SelectSeq(results, LAMBDA r : Valid(r.rangeSpan))

\* C36: after a successful flush whose ingest returned at least one per-range
\* result, the lastRange span, remaining capacity and next existing key all
\* equal those of the last result returned.
C36_LastRangeIsLastResult ==
  ResultsOf(sent) # <<>> =>
    With(ResultsOf(sent)[Len(ResultsOf(sent))], LAMBDA last :
      b.lastRange = [span |-> last.rangeSpan, remaining |-> last.availableBytes,
                     nextExistingKey |-> last.followingLikelyNonEmptySpanStart])

\* C36 as the code has it: the lastRange span is that of the last result
\* returned; the remaining capacity and the next existing key are those of
\* the last result returned with a valid range span, and are as constructed
\* while no such result was returned.
C36_LastRangeIsLastValidResult ==
  With(ResultsOf(sent), LAMBDA results :
    /\ b.lastRange.span =
         IF results = <<>> THEN ZeroSpan ELSE results[Len(results)].rangeSpan
    /\ With(ValidResults(results), LAMBDA valid :
         /\ b.lastRange.remaining =
              IF valid = <<>> THEN 0 ELSE valid[Len(valid)].availableBytes
         /\ b.lastRange.nextExistingKey =
              IF valid = <<>> THEN NoKey
              ELSE valid[Len(valid)].followingLikelyNonEmptySpanStart))

\* two ingests have returned results, the last with a valid range span, a
\* capacity and a next existing key other than those of the first
C36_Witness ==
  /\ Len(sent) = 2 /\ sent[1].ok /\ sent[2].ok
  /\ sent[1].results # <<>> /\ sent[2].results # <<>>
  /\ Valid(sent[2].results[Len(sent[2].results)].rangeSpan)
  /\ sent[1].results[1].availableBytes # sent[2].results[1].availableBytes
  /\ b.lastRange.remaining = sent[2].results[Len(sent[2].results)].availableBytes
  /\ b.lastRange.nextExistingKey # NoKey

\* the last result returned has no valid range span: the span remembered is
\* empty while the capacity remembered is still that of an earlier result
C36_InvalidSpanWitness ==
  /\ Len(sent) = 2 /\ sent[1].ok /\ sent[2].ok
  /\ sent[1].results # <<>> /\ Len(sent[2].results) = 1
  /\ ~Valid(sent[2].results[1].rangeSpan)
  /\ b.lastRange.span = ZeroSpan
  /\ b.lastRange.remaining = sent[1].results[1].availableBytes
  /\ b.lastRange.remaining # sent[2].results[1].availableBytes

\* the step ingested a file and the ingest returned a result
IngestedWithResults ==
  /\ NewRequests # <<>>
  /\ NewRequests[Len(NewRequests)].ok
  /\ NewRequests[Len(NewRequests)].results # <<>>

\* C37: Reset never modifies the lastRange bookkeeping (span, remaining
\* capacity, next existing key); it changes only in a step whose ingest
\* succeeded and returned results, and after a size- or range-triggered flush,
\* which resets the batcher, it holds what the results of that flush left.
C37_ResetKeepsLastRange ==
  /\ [][ResetStep => b'.lastRange = b.lastRange]_vars
  /\ [][b'.lastRange # b.lastRange => IngestedWithResults]_vars
  /\ [][AddStep /\ IngestedWithResults =>
          /\ HoldsOnlyNewKey
          /\ b'.lastRange =
               processResults(b, NewRequests[Len(NewRequests)].results).lastRange]_vars

\* a key has just been accepted after a size- or range-triggered flush and
\* the reset that follows it, and the range the flush ingested into is
\* remembered
C37_Witness ==
  /\ lastOp.op = "AddMVCCKey" /\ lastOp.err = ""
  /\ Len(sent) = 1 /\ sent[1].ok /\ sent[1].reason # manualFlush
  /\ Len(b.sstFile) = 1 /\ b.sstFile[1].key = lastOp.key
  /\ Valid(b.lastRange.span) /\ b.lastRange.span = sent[1].results[1].rangeSpan
  /\ b.lastRange.nextExistingKey # NoKey

\* Reset has just been called by the caller and the range is still remembered
C37_ResetWitness ==
  /\ lastOp.op = "Reset" /\ b.sstFile = <<>>
  /\ Valid(b.lastRange.span) /\ b.lastRange.remaining > 0

\* ---------------------------------------- properties: duplicates by timestamp
\* C38: in skip-duplicates mode an AddMVCCKey whose key and value equal those
\* of the last accepted entry but whose timestamp differs is absorbed: it
\* returns nil, no entry is written for the new timestamp, nothing is flushed
\* and the batcher is unchanged.
C38_SkipIgnoresTimestamp ==
  [][AddStep /\ b.skipDuplicates /\ RepeatsKey
       /\ lastOp'.value = b.batchEndValue /\ lastOp'.ts # b.batchEndTimestamp =>
         /\ lastOp'.err = "" /\ lastOp'.calls = <<>>
         /\ b' = b /\ added' = added /\ sent' = sent]_vars

\* a skip-duplicates batcher has just absorbed its last key and value given
\* again at another timestamp: the file holds the one entry at the first
\* timestamp
C38_Witness ==
  /\ lastOp.op = "AddMVCCKey" /\ lastOp.err = "" /\ b.skipDuplicates
  /\ lastOp.key = b.batchEndKey /\ lastOp.value = b.batchEndValue
  /\ lastOp.ts # b.batchEndTimestamp
  /\ Len(added) = 1 /\ added[1].ts = b.batchEndTimestamp /\ b.sstFile = added

\* ------------------------------------- properties: Transaction timestamps
\* C39: in every state reached from MakeTransaction by Restart,
\* BumpReadTimestamp and Update calls (and the other calls, which do not touch
\* the timestamps) the read timestamp is less than or equal to the write
\* timestamp; BumpReadTimestamp(ts) sets the read timestamp to the maximum of
\* the read timestamp and ts and never lowers it.
C39_ReadNotAboveWrite ==
  /\ [](LessEq(txn.ReadTimestamp, txn.WriteTimestamp))
  /\ [][BumpReadTimestampStep =>
          /\ IsMax(txn'.ReadTimestamp, txn.ReadTimestamp, lastTxnOp'.timestamp)
          /\ ~Less(txn'.ReadTimestamp, txn.ReadTimestamp)
          /\ IsMax(txn'.WriteTimestamp, txn.WriteTimestamp, txn'.ReadTimestamp)]_vars

\* a transaction made at time 1 has had its read timestamp bumped above its
\* write timestamp, which followed
C39_Witness ==
  /\ lastTxnOp.op = "BumpReadTimestamp" /\ txnOps = 1 /\ txn.ID # 0
  /\ Less(<<1, 0>>, lastTxnOp.timestamp)
  /\ txn.ReadTimestamp = lastTxnOp.timestamp
  /\ txn.WriteTimestamp = lastTxnOp.timestamp

\* a bump to an earlier time has left the read timestamp where it was, below
\* the write timestamp
C39_NoLoweringWitness ==
  /\ lastTxnOp.op = "BumpReadTimestamp" /\ txn.ID # 0
  /\ Less(lastTxnOp.timestamp, txn.ReadTimestamp)
  /\ Less(txn.ReadTimestamp, txn.WriteTimestamp)

\* ---------------------------------------- properties: Update applied twice
\* C40: Update is idempotent: for every receiver and every initialized other
\* record of the same transaction, applying Update with it a second time
\* leaves the receiver as the first application left it, whatever the two
\* epochs and the two statuses.
C40_UpdateIdempotent ==
  [][UpdateStep /\ UpdateSameID => Update(txn', lastTxnOp'.o) = txn']_vars

\* a transaction at epoch 0 has taken the status, the epoch and the lock spans
\* of a record at epoch 1, and Update with that record again changes nothing
C40_Witness ==
  /\ lastTxnOp.op = "Update" /\ txnOps = 1 /\ txn.ID # 0 /\ txn # lastTxnOp.o
  /\ lastTxnOp.o.Epoch = 1 /\ txn.Epoch = 1
  /\ txn.Status = "STAGING" /\ txn.LockSpans # <<>>
  /\ Update(txn, lastTxnOp.o) = txn

\* a restarted transaction has been aborted by a record of its earlier epoch,
\* and Update with that record again changes nothing
C40_LowerEpochWitness ==
  /\ lastTxnOp.op = "Update" /\ txnOps = 2
  /\ lastTxnOp.o.Epoch = 0 /\ txn.Epoch = 1
  /\ lastTxnOp.o.Status = "ABORTED" /\ txn.Status = "ABORTED"
  /\ Update(txn, lastTxnOp.o) = txn

=============================================================================
